---- MODULE Spec2Model ----
(***************************************************************************)
(* Widget API client of matrix-rust-sdk: the WidgetProxy (outbound request *)
(* correlator), the State dispatcher of incoming widget requests with its  *)
(* capability negotiation, the session driver, and the older ClientApi     *)
(* state machine.  Every action is one step between two suspension points  *)
(* (or two lock-protected sections) of the Rust code.                      *)
(***************************************************************************)
EXTENDS Naturals, Integers, Sequences, FiniteSets, TLC

(***************************************************************************)
(* Bounds of the model.                                                    *)
(***************************************************************************)
\* Requests the widget sends over the life of a session.
MaxRequests == 2
\* Replies (toWidget responses) the widget sends over the life of a session.
MaxResponses == 2
\* Undecodable texts the widget sends over the life of a session.
MaxGarbage == 1
\* Steps of the widget side over the life of a session: texts sent and
\* channels closed.
MaxWidgetSteps == 4
\* Capacity of the incoming transport channel (async_channel::Receiver<String>).
FromCap == 1
\* Capacity of the outgoing transport channel (async_channel::Sender<String>).
SinkCap == 2
\* Longest page of events the room collaborator returns.
MaxChunk == 2
\* Most room events waiting in the channel of the live subscription.
MaxRoomEvents == 1
\* Calls of WidgetProxy::send made by the concurrent callers, in all.
MaxProxyCalls == 3

\* Ids of host-initiated requests (Uuid::new_v4): a negotiation makes two
\* calls, a GetOpenId one; at most one eager negotiation precedes the requests.
MaxHostIds == 2 * MaxRequests + 2
HostIds == 1 .. MaxHostIds
\* An id the host never generated (an unsolicited reply carries it).
UnsolicitedId == MaxHostIds + 1
\* Ids the widget gives its own requests, disjoint from the host's: the n-th
\* request of the widget has id WidgetReqBase + n.
WidgetReqBase == MaxHostIds + 1
WidgetReqIds == { WidgetReqBase + n : n \in 1 .. MaxRequests }
\* The events the client feeds ClientApi in a session, and the ids of the
\* requests among them.
MaxEvents == MaxRequests + MaxGarbage
ApiReqIds == { WidgetReqBase + n : n \in 1 .. MaxEvents }

\* Default page sizes of a ReadEvent fetch.
DefaultStateLimit == 1
DefaultMessageLimit == 50

(***************************************************************************)
(* Data: events, filters, permissions.                                     *)
(***************************************************************************)
NoKey == "<none>"
AnyKey == "<any>"
NoMsgtype == "<none>"

RoomMessage == "m.room.message"
RoomTopic == "m.room.topic"
\* WidgetSettings::id, and the widget ids incoming messages carry.
SettingsId == "w1"
WidgetIds == {SettingsId}
RoomId == "!room"

\* Raw timeline events the room collaborator can return.  ok = FALSE is a raw
\* event that does not deserialize as a MatrixEventFilterInput.
RawEvents ==
  { [id |-> 1, event_type |-> RoomTopic,   state_key |-> "",    msgtype |-> NoMsgtype, ok |-> TRUE],
    [id |-> 2, event_type |-> RoomTopic,   state_key |-> "k",   msgtype |-> NoMsgtype, ok |-> TRUE],
    [id |-> 3, event_type |-> RoomMessage, state_key |-> NoKey, msgtype |-> "m.text",  ok |-> TRUE],
    [id |-> 4, event_type |-> RoomTopic,   state_key |-> "k",   msgtype |-> NoMsgtype, ok |-> FALSE] }

MessageLikeWithType(t) ==
  [kind |-> "MessageLikeWithType", event_type |-> t, state_key |-> NoKey, msgtype |-> NoMsgtype]
RoomMessageWithMsgtype(m) ==
  [kind |-> "RoomMessageWithMsgtype", event_type |-> RoomMessage, state_key |-> NoKey, msgtype |-> m]
StateWithType(t) ==
  [kind |-> "StateWithType", event_type |-> t, state_key |-> NoKey, msgtype |-> NoMsgtype]
StateWithTypeAndStateKey(t, k) ==
  [kind |-> "StateWithTypeAndStateKey", event_type |-> t, state_key |-> k, msgtype |-> NoMsgtype]

\* EventFilter::matches on a deserialized filter input.
FilterMatches(f, ev) ==
  CASE f.kind = "MessageLikeWithType" ->
         ev.state_key = NoKey /\ ev.event_type = f.event_type
    [] f.kind = "RoomMessageWithMsgtype" ->
         ev.event_type = RoomMessage /\ ev.msgtype = f.msgtype
    [] f.kind = "StateWithType" ->
         ev.state_key # NoKey /\ ev.event_type = f.event_type
    [] f.kind = "StateWithTypeAndStateKey" ->
         ev.state_key # NoKey /\ ev.event_type = f.event_type /\ ev.state_key = f.state_key
    [] OTHER -> FALSE

\* any_matches: logical OR over the filter list.
any_matches(filters, ev) ==
  \E i \in DOMAIN filters : FilterMatches(filters[i], ev)

Permissions(r, s) == [read |-> r, send |-> s, requires_client |-> FALSE]
\* Permissions::default()
DefaultPermissions == Permissions(<<>>, <<>>)

\* What the widget may ask for in its CapabilitiesResponse.
DesiredSet ==
  { Permissions(<<StateWithType(RoomTopic)>>, <<>>) }
\* What the policy collaborator may answer: anything it likes.
ApprovedSet ==
  DesiredSet \cup
  { DefaultPermissions,
    Permissions(<<StateWithTypeAndStateKey(RoomTopic, "k"), MessageLikeWithType(RoomMessage)>>,
                <<RoomMessageWithMsgtype("m.text"), StateWithType(RoomTopic)>>) }

(***************************************************************************)
(* Message codec.  A text on the transport is a record of its JSON fields; *)
(* a text that is no JSON object, or names no known api/action, does not   *)
(* decode.                                                                  *)
(***************************************************************************)
Empty == [empty |-> TRUE]
None == [some |-> FALSE, v |-> 0]
Some(n) == [some |-> TRUE, v |-> n]

Success(x) == [ok |-> TRUE, value |-> x, message |-> ""]
Failure(m) == [ok |-> FALSE, value |-> Empty, message |-> m]
NoResponse == [ok |-> FALSE, value |-> Empty, message |-> "<request>"]

FromWidgetActions ==
  {"supported_api_versions", "content_loaded", "get_openid", "send_event", "read_events"}
ToWidgetActions ==
  {"capabilities", "notify_capabilities", "openid_credentials", "send_event"}

Header(request_id, widget_id) == [request_id |-> request_id, widget_id |-> widget_id]

\* The JSON object of a `response` field as its decoder sees it: the fields
\* `capabilities` and `error` (its message), each a sequence of at most one
\* value, empty when the object has no such field.  The `response` of a text
\* is a sequence of at most one such object, empty when the text has none.
JsonObject(capabilities, error) == [capabilities |-> capabilities, error |-> error]

\* serde_json::from_str::<IncomingMessage>: header flattened, body tagged by
\* "api" and "action".  A reply of the widget is a Response<Req, Resp>: its
\* `data` must be of the request type Req of the action, and its `response`
\* a ResponseBody<Resp>, untagged: Success(Resp) is tried first, Failure
\* after it.  Empty takes any object, so that only the reply to
\* `capabilities`, whose Success needs the field `capabilities`, decodes as
\* a Failure.
from_json(raw) ==
  LET undecoded == [ok |-> FALSE, kind |-> "DecodeError",
                    header |-> Header(UnsolicitedId, ""),
                    action |-> "", data |-> Empty, response |-> NoResponse]
      request_accepts ==
        CASE raw.action = "notify_capabilities" ->
               {"requested", "approved"} \subseteq DOMAIN raw.data
          [] raw.action = "openid_credentials" ->
               /\ "state" \in DOMAIN raw.data
               /\ raw.data.state \in {"allowed", "blocked", "request"}
               /\ raw.data.state = "allowed" => "original_request_id" \in DOMAIN raw.data
          [] OTHER -> TRUE
      body == raw.response[1]
      response_decodes ==
        /\ raw.response # <<>>
        /\ raw.action = "capabilities" => body.capabilities # <<>> \/ body.error # <<>>
      response_body ==
        IF raw.action = "capabilities"
        THEN IF body.capabilities # <<>>
             THEN Success([capabilities |-> body.capabilities[1]])
             ELSE Failure(body.error[1])
        ELSE Success(Empty)
  IN IF raw.api = "fromWidget" /\ raw.action \in FromWidgetActions
     THEN [ok |-> TRUE, kind |-> "FromWidget",
           header |-> Header(raw.requestId, raw.widgetId),
           action |-> raw.action, data |-> raw.data, response |-> NoResponse]
     ELSE IF raw.api = "toWidget" /\ raw.action \in ToWidgetActions
             /\ request_accepts /\ response_decodes
     THEN [ok |-> TRUE, kind |-> "ToWidget",
           header |-> Header(raw.requestId, raw.widgetId),
           action |-> raw.action, data |-> raw.data, response |-> response_body]
     ELSE undecoded

\* A variant that leaves the request's data out of the reply.
ReplyMessage_no_data(req, response) ==
  [api |-> "fromWidget", request_id |-> req.header.request_id,
   widget_id |-> req.header.widget_id, action |-> req.action,
   data |-> Empty, response |-> response]

\* to_json of a reply to a widget request (WidgetProxy::reply).
ReplyMessage(req, response) ==
  [api |-> "fromWidget", request_id |-> req.header.request_id,
   widget_id |-> req.header.widget_id, action |-> req.action,
   data |-> req.data, response |-> response]

\* Request::map / $request::map: the reply to `req` with a result.
map(req, result) == ReplyMessage(req, result)

\* Request::fail: the failure reply to `req`.
fail(req, error) == map(req, Failure(error))

\* to_json of a host-initiated request (WidgetProxy::send).
OutgoingMessage(id, widget_id, action, data) ==
  [api |-> "toWidget", request_id |-> id, widget_id |-> widget_id,
   action |-> action, data |-> data, response |-> NoResponse]

\* The out-of-band error text of WidgetProxy::send_error: the bare message,
\* no header.
ErrorText(message) == [api |-> "error", message |-> message]

(***************************************************************************)
(* Requests the widget can make.                                           *)
(***************************************************************************)
ReadEventRequest(t, k, l) == [event_type |-> t, state_key |-> k, limit |-> l]
SendEventRequest(t, k, m) == [event_type |-> t, state_key |-> k, content |-> [msgtype |-> m]]

ReadRequests ==
  { ReadEventRequest(RoomTopic, "k", None),
    ReadEventRequest(RoomTopic, AnyKey, Some(2)),
    ReadEventRequest(RoomTopic, AnyKey, None),
    ReadEventRequest(RoomMessage, NoKey, None) }
SendRequests ==
  { SendEventRequest(RoomTopic, "k", NoMsgtype),
    SendEventRequest(RoomMessage, NoKey, NoMsgtype),
    SendEventRequest(RoomMessage, NoKey, "m.text") }

\* The (action, data) pairs of the requests a widget sends.
WidgetRequestBodies ==
  ({"supported_api_versions", "content_loaded", "get_openid"} \X {Empty})
    \cup ({"read_events"} \X ReadRequests)
    \cup ({"send_event"} \X SendRequests)

\* The (action, response) pairs a widget may answer to a request of kind
\* `action`: a success, a declared failure, or a reply of another kind.
ResponsesTo(action) ==
  (IF action = "capabilities"
   THEN { << action, JsonObject(<<d>>, <<>>) >> : d \in DesiredSet }
   ELSE { << action, JsonObject(<<>>, <<>>) >> })
  \cup { << action, JsonObject(<<>>, <<"widget says no">>) >>,
         << IF action = "notify_capabilities" THEN "openid_credentials"
            ELSE "notify_capabilities", JsonObject(<<>>, <<>>) >> }

\* The body of a reply nobody asked for (what it says is never looked at).
UnsolicitedBody == << "notify_capabilities", JsonObject(<<>>, <<>>) >>

\* Texts that do not decode: no JSON at all, JSON naming an unknown action,
\* a reply whose `data` is not of the request type of its action, and a
\* reply without `response`.
GarbageTexts ==
  { [api |-> "<not json>", action |-> "", requestId |-> UnsolicitedId, widgetId |-> "",
     data |-> Empty, response |-> <<>>],
    [api |-> "fromWidget", action |-> "bogus", requestId |-> UnsolicitedId, widgetId |-> "w1",
     data |-> Empty, response |-> <<>>],
    [api |-> "toWidget", action |-> "notify_capabilities", requestId |-> UnsolicitedId,
     widgetId |-> "w1", data |-> Empty, response |-> << JsonObject(<<>>, <<>>) >>],
    [api |-> "toWidget", action |-> "capabilities", requestId |-> UnsolicitedId,
     widgetId |-> "w1", data |-> Empty, response |-> <<>>] }

\* All sequences over S without repetition, of length at most n.
RECURSIVE SeqsUpTo(_, _)
SeqsUpTo(S, n) ==
  IF n = 0 THEN {<<>>}
  ELSE LET shorter == SeqsUpTo(S, n - 1)
       IN shorter \cup { Append(q, x) : q \in { r \in shorter : Len(r) = n - 1 },
                                        x \in S }
NoRepeat(q) == \A i, j \in DOMAIN q : i # j => q[i] # q[j]
\* Pages of events the room collaborator can return.
RoomChunks == { q \in SeqsUpTo(RawEvents, MaxChunk) : NoRepeat(q) }

(***************************************************************************)
(* State.                                                                  *)
(***************************************************************************)
VARIABLES
  init_on_load,   \* WidgetSettings::init_on_load
  from,           \* Comm::from: texts from the widget, not yet received
  fromClosed,     \* the receive side of the transport is closed
  sink,           \* Comm::to (WidgetProxy::sink): texts written, not yet taken
  sinkClosed,     \* the receiver of Comm::to is dropped
  seen,           \* the host-initiated requests the widget has taken
  nRequests, nResponses, nGarbage,   \* what the widget has sent so far
  dpc, dmsg,      \* session driver: position, message being handled
  rx,             \* State::listen's queue of incoming requests
  rxClosed,       \* the sender of that queue is dropped (driver ended)
  lock,           \* holder of WidgetProxy::pending's mutex
  pending,        \* keys of WidgetProxy::pending
  chan,           \* the oneshot channel of each host-initiated request
  nextId,         \* next Uuid
  lpc,            \* State::listen: position
  lcur,           \* the request being handled
  lresp,          \* the response about to be written by State::reply
  lnext,          \* what handle() does after the reply is written
  lneg,           \* who called initialize(): "eager" (listen) or "loaded" (handle)
  lcall,          \* the WidgetProxy::send call in progress
  ldesired,       \* initialize(): the widget's desired permissions
  lerr,           \* the error handle() returned
  lroom,          \* the call to the room collaborator made for the request
  permissions,    \* State::permissions
  listener,       \* State::listener is Some
  initialized,    \* State::initialized
  event_handler_handle,  \* Driver::event_handler_handle: filters of the live subscription
  listener_rx,    \* the events in the channel of the live subscription (State::listener)
  tokenTask,      \* the task spawned by Driver::get_openid
  replies,        \* per widget request: the number of replies written for it
  nCapabilities,  \* CapabilitiesRequests written
  nAcquired,      \* answers of the policy collaborator stored by initialize()
  policyAnswer,   \* the latest answer of the policy collaborator (acquire_permissions)
  nInitialized,   \* calls of initialize() that returned Ok
  init_on_content_load,  \* ClientApi::init_on_content_load
  api_permissions,       \* ClientApi::permissions
  actions,               \* the channel behind ClientApi::actions_tx
  tasks,                 \* the tasks spawned by ClientApi, in the order of their spawning
  nEvents,               \* events given to ClientApi::process so far
  nUndecoded,            \* of these, the texts that did not decode
  nToWidget,             \* of these, the replies of the widget (ToWidget messages)
  emitted,               \* messages sent to the widget by ClientApi: replies per request, errors
  calls,                 \* concurrent callers of WidgetProxy::send: the call of each
  events_rx,             \* run_widget_api: the channel of events, from events_tx to events_rx
  fwd,                   \* run_widget_api: the forwarding task
  rpc,                   \* run_widget_api: the position of the function
  todo                   \* run_widget_api: the actions of the current event still to perform

transportVars == << from, fromClosed, sink, sinkClosed, seen >>
wireVars == << sink, replies, nCapabilities >>
historyVars == << replies, nCapabilities >>
widgetVars == << nRequests, nResponses, nGarbage >>
driverVars == << dpc, dmsg >>
proxyVars == << lock, pending, chan, nextId, nInitialized >>
listenVars == << lpc, lcur, lresp, lnext, lneg, lcall, ldesired, lerr, lroom >>
stateVars == << permissions, listener, initialized, event_handler_handle, listener_rx >>
collabVars == << tokenTask, nAcquired, policyAnswer >>

runVars == << events_rx, fwd, rpc, todo >>
apiVars == << init_on_content_load, api_permissions, actions, tasks, nEvents, nUndecoded,
             nToWidget, emitted, runVars >>

vars == << init_on_load, calls, apiVars, transportVars, historyVars, widgetVars, driverVars, rx, rxClosed,
           proxyVars, listenVars, stateVars, collabVars >>

\* The tasks that call WidgetProxy::send on the shared proxy, and the state
\* of a task that has made no call yet.
Callers == {"a", "b"}
NoProxyCall ==
  [pc |-> "idle", id |-> UnsolicitedId, action |-> "",
   result |-> [st |-> "none", error |-> "", value |-> Empty]]

NoMsg == from_json(CHOOSE g \in GarbageTexts : g.api = "<not json>")
NoCall == [id |-> UnsolicitedId, action |-> "", data |-> Empty]
NoRoomCall ==
  [op |-> "", limit |-> None.v, filters |-> <<>>, returned |-> FALSE, chunk |-> <<>>,
   event_type |-> "", state_key |-> NoKey, event_id |-> ""]
ChanUnused == [st |-> "unused", action |-> "", response |-> NoResponse]
ChanOpen == [st |-> "open", action |-> "", response |-> NoResponse]
ChanDropped == [st |-> "rx_dropped", action |-> "", response |-> NoResponse]
ChanSent(action, response) == [st |-> "sent", action |-> action, response |-> response]

\* A variant of new_permissions in which a session starts with permissions.
new_permissions_granted ==
  Permissions(<<StateWithType(RoomTopic)>>, <<StateWithType(RoomTopic)>>)

\* The permissions State::new starts with.
new_permissions == DefaultPermissions

\* State::new, WidgetProxy::new, Driver::new.
InitSession(onLoad) ==
  /\ init_on_load \in onLoad
  /\ from = <<>> /\ fromClosed = FALSE
  /\ sink = <<>> /\ sinkClosed = FALSE /\ seen = {}
  /\ nRequests = 0 /\ nResponses = 0 /\ nGarbage = 0
  /\ dpc = "recv" /\ dmsg = NoMsg
  /\ rx = <<>> /\ rxClosed = FALSE
  /\ lock = "free" /\ pending = {} /\ chan = [i \in HostIds |-> ChanUnused]
  /\ nextId = 1
  /\ lpc = "init" /\ lcur = NoMsg /\ lresp = NoResponse /\ lnext = "recv"
  /\ lneg = "eager" /\ lcall = NoCall /\ ldesired = DefaultPermissions /\ lerr = ""
  /\ lroom = NoRoomCall
  /\ permissions = new_permissions /\ listener = FALSE /\ initialized = FALSE
  /\ event_handler_handle = <<>> /\ listener_rx = <<>>
  /\ tokenTask = "idle"
  /\ replies = [r \in WidgetReqIds \cup ApiReqIds |-> 0] /\ nCapabilities = 0
  /\ nAcquired = 0 /\ nInitialized = 0
  /\ policyAnswer = DefaultPermissions
  /\ calls = [c \in Callers |-> NoProxyCall]

(***************************************************************************)
(* The transport and the widget behind it.                                 *)
(***************************************************************************)
SinkFull == Len(sink) >= SinkCap

\* The widget side has not used up its steps of a session: the texts it
\* sends and the channels it closes.
WidgetMayAct ==
  nRequests + nResponses + nGarbage
    + (IF fromClosed THEN 1 ELSE 0) + (IF sinkClosed THEN 1 ELSE 0) < MaxWidgetSteps
MayWrite == ~fromClosed /\ Len(from) < FromCap /\ WidgetMayAct

\* sink.send(text).await has completed with Ok: the text is in the channel.
\* The history variables count what was written.
Written(text) ==
  /\ sink' = Append(sink, text)
  /\ replies' = IF text.api = "fromWidget"
                THEN [replies EXCEPT ![text.request_id] = @ + 1]
                ELSE replies
  /\ nCapabilities' = IF text.api = "toWidget" /\ text.action = "capabilities"
                      THEN nCapabilities + 1 ELSE nCapabilities

RawRequest(id, wid, action, data) ==
  [api |-> "fromWidget", action |-> action, requestId |-> id, widgetId |-> wid,
   data |-> data, response |-> <<>>]
\* A reply of the widget: its `data` repeats the request, a value of the
\* request type of `action`.
RawResponse(id, wid, action, response) ==
  [api |-> "toWidget", action |-> action, requestId |-> id, widgetId |-> wid,
   data |-> CASE action = "notify_capabilities" ->
                   [requested |-> DefaultPermissions, approved |-> DefaultPermissions]
              [] action = "openid_credentials" -> [state |-> "blocked"]
              [] OTHER -> Empty,
   response |-> << response >>]

\* The widget sends a request.
WidgetSendRequest ==
  /\ MayWrite /\ nRequests < MaxRequests
  /\ \E body \in WidgetRequestBodies, wid \in WidgetIds :
       from' = Append(from, RawRequest(WidgetReqBase + nRequests + 1, wid, body[1], body[2]))
  /\ nRequests' = nRequests + 1
  /\ UNCHANGED << init_on_load, calls, apiVars, fromClosed, sink, sinkClosed, seen, historyVars,
                  nResponses, nGarbage, driverVars, rx, rxClosed, proxyVars, listenVars,
                  stateVars, collabVars >>

\* The widget replies to a host-initiated request it has received.
WidgetSendResponse ==
  /\ MayWrite /\ nResponses < MaxResponses
  /\ \E s \in seen, wid \in WidgetIds :
       \E body \in ResponsesTo(s.action) :
         from' = Append(from, RawResponse(s.id, wid, body[1], body[2]))
  /\ nResponses' = nResponses + 1
  /\ UNCHANGED << init_on_load, calls, apiVars, fromClosed, sink, sinkClosed, seen, historyVars,
                  nRequests, nGarbage, driverVars, rx, rxClosed, proxyVars, listenVars,
                  stateVars, collabVars >>

\* The widget sends a reply nobody asked for.
WidgetSendUnsolicited ==
  /\ MayWrite /\ nResponses < MaxResponses
  /\ \E wid \in WidgetIds :
       from' = Append(from, RawResponse(UnsolicitedId, wid, UnsolicitedBody[1],
                                        UnsolicitedBody[2]))
  /\ nResponses' = nResponses + 1
  /\ UNCHANGED << init_on_load, calls, apiVars, fromClosed, sink, sinkClosed, seen, historyVars,
                  nRequests, nGarbage, driverVars, rx, rxClosed, proxyVars, listenVars,
                  stateVars, collabVars >>

\* The widget sends a text that does not decode.
WidgetSendGarbage ==
  /\ MayWrite /\ nGarbage < MaxGarbage
  /\ \E g \in GarbageTexts : from' = Append(from, g)
  /\ nGarbage' = nGarbage + 1
  /\ UNCHANGED << init_on_load, calls, apiVars, fromClosed, sink, sinkClosed, seen, historyVars,
                  nRequests, nResponses, driverVars, rx, rxClosed, proxyVars, listenVars,
                  stateVars, collabVars >>

\* The widget side takes the next text out of the outgoing channel.
WidgetConsume ==
  /\ ~sinkClosed /\ sink # <<>>
  /\ sink' = Tail(sink)
  /\ seen' = IF Head(sink).api = "toWidget"
             THEN seen \cup {[id |-> Head(sink).request_id, action |-> Head(sink).action]}
             ELSE seen
  /\ UNCHANGED << init_on_load, calls, apiVars, from, fromClosed, sinkClosed, historyVars,
                  widgetVars,
                  driverVars, rx, rxClosed, proxyVars, listenVars, stateVars, collabVars >>

\* The sending side of Comm::from goes away.
TransportCloseFrom ==
  /\ ~fromClosed /\ WidgetMayAct
  /\ fromClosed' = TRUE
  /\ UNCHANGED << init_on_load, calls, apiVars, from, sink, sinkClosed, seen, historyVars,
                  widgetVars,
                  driverVars, rx, rxClosed, proxyVars, listenVars, stateVars, collabVars >>

\* The receiving side of Comm::to goes away; what was in the channel is lost.
TransportCloseSink ==
  /\ ~sinkClosed /\ WidgetMayAct
  /\ sinkClosed' = TRUE
  /\ sink' = <<>>
  /\ UNCHANGED << init_on_load, calls, apiVars, from, fromClosed, seen, historyVars, widgetVars,
                  driverVars, rx, rxClosed, proxyVars, listenVars, stateVars, collabVars >>

(***************************************************************************)
(* WidgetProxy: replies of the widget, out-of-band errors.                 *)
(***************************************************************************)
\* WidgetProxy::send_error: the bare message is written to the sink and the
\* outcome ignored.  As a conjunct of an action: the effect of the call once
\* it completes (it waits while the channel is full and open).
send_error(message) ==
  /\ sinkClosed \/ ~SinkFull
  /\ IF sinkClosed THEN UNCHANGED wireVars ELSE Written(ErrorText(message))

\* tx.send(message.data) on the oneshot of request `id`: it fails, and the
\* value is lost, when the receiver is gone.
oneshot_send(id, msg) ==
  IF chan[id].st = "open"
  THEN [chan EXCEPT ![id] = ChanSent(msg.action, msg.response)]
  ELSE chan

\* A variant of pending_remove that looks the entry up and leaves it in the
\* table.
pending_remove_kept(id) == pending

\* pending.lock().remove(&request_id) of handle_widget_response.
pending_remove(id) == pending \ {id}

\* WidgetProxy::handle_widget_response, up to its await: the lock is taken,
\* the entry removed; a found entry gets the reply, and the guard is dropped
\* at the end of the `if let`; without an entry the else branch runs with the
\* guard of the scrutinee still alive.
handle_widget_response ==
  /\ dpc = "handle_widget_response"
  /\ lock = "free"
  /\ LET id == dmsg.header.request_id IN
       IF id \in pending
       THEN /\ pending' = pending_remove(id)
            /\ chan' = oneshot_send(id, dmsg)
            /\ lock' = "free"
            /\ dpc' = "recv"
            /\ dmsg' = NoMsg
       ELSE /\ lock' = "driver"
            /\ dpc' = "unexpected_response"
            /\ UNCHANGED << pending, chan, dmsg >>
  /\ UNCHANGED << init_on_load, calls, apiVars, transportVars, historyVars, widgetVars, rx,
                  rxClosed,
                  nextId, nInitialized, listenVars, stateVars, collabVars >>

\* The else branch of handle_widget_response: send_error(..).await completes,
\* then the guard goes out of scope.
handle_widget_response_error ==
  /\ dpc = "unexpected_response"
  /\ send_error("Unexpected response from a widget")
  /\ lock' = "free"
  /\ dpc' = "recv"
  /\ dmsg' = NoMsg
  /\ UNCHANGED << init_on_load, calls, apiVars, from, fromClosed, sinkClosed, seen, widgetVars,
                  rx, rxClosed, pending, chan, nextId, nInitialized, listenVars, stateVars,
                  collabVars >>

(***************************************************************************)
(* Session driver: receive, decode, route.                                 *)
(***************************************************************************)
\* One turn of the loop: a text is received and decoded; a request goes to
\* the dispatcher's queue, a reply to handle_widget_response, anything else to
\* send_error.
DriverRecv ==
  /\ dpc = "recv" /\ from # <<>>
  /\ LET msg == from_json(Head(from)) IN
       /\ from' = Tail(from)
       /\ CASE ~msg.ok -> dpc' = "decode_error" /\ rx' = rx /\ dmsg' = msg
            [] msg.ok /\ msg.kind = "FromWidget" ->
                 /\ dpc' = "recv" /\ dmsg' = NoMsg
                 /\ rx' = IF lpc = "done" THEN rx ELSE Append(rx, msg)
            [] msg.ok /\ msg.kind = "ToWidget" ->
                 dpc' = "handle_widget_response" /\ rx' = rx /\ dmsg' = msg
  /\ UNCHANGED << init_on_load, calls, apiVars, fromClosed, sink, sinkClosed, seen, historyVars,
                  widgetVars, rxClosed, proxyVars, listenVars, stateVars, collabVars >>

\* The out-of-band error for a text that did not decode.
DriverDecodeError ==
  /\ dpc = "decode_error"
  /\ send_error("Failed to parse the message")
  /\ dpc' = "recv"
  /\ dmsg' = NoMsg
  /\ UNCHANGED << init_on_load, calls, apiVars, from, fromClosed, sinkClosed, seen, widgetVars,
                  rx, rxClosed, proxyVars, listenVars, stateVars, collabVars >>

\* The receive side is closed and drained: the loop ends, the dispatcher's
\* queue loses its sender.
DriverClosed ==
  /\ dpc = "recv" /\ from = <<>> /\ fromClosed
  /\ dpc' = "done"
  /\ rxClosed' = TRUE
  /\ UNCHANGED << init_on_load, calls, apiVars, transportVars, historyVars, widgetVars, dmsg, rx,
                  proxyVars, listenVars, stateVars, collabVars >>

(***************************************************************************)
(* WidgetProxy::send, called by the dispatcher task.                       *)
(***************************************************************************)
Ok(x) == [st |-> "ok", error |-> "", value |-> x]
Err(e) == [st |-> "err", error |-> e, value |-> Empty]

ErrWidgetDisconnected == "Widget is disconnected"
ErrTimeout == "Timeout reached while waiting for reply"
ErrInvalidResponse == "Widget sent invalid response"

\* Sets the variables of the dispatcher task.
ListenRoom(pc, cur, resp, next, neg, call, desired, err, room) ==
  /\ lpc' = pc /\ lcur' = cur /\ lresp' = resp /\ lnext' = next
  /\ lneg' = neg /\ lcall' = call /\ ldesired' = desired /\ lerr' = err
  /\ lroom' = room
\* The same for the steps that make no room call: the record of the call is
\* dropped with the request it was made for.
Listen(pc, cur, resp, next, neg, call, desired, err) ==
  ListenRoom(pc, cur, resp, next, neg, call, desired, err,
             IF pc \in {"reply", "fail_reply"} THEN lroom ELSE NoRoomCall)

\* The start of WidgetProxy::send(action, data): a fresh id is drawn, the
\* message is serialized; the write to the sink is the next step.
BeginSend(cur, neg, desired, action, data) ==
  /\ nextId \in HostIds
  /\ nextId' = nextId + 1
  /\ Listen("send_write", cur, NoResponse, "recv", neg,
            [id |-> nextId, action |-> action, data |-> data], desired, "")

\* A variant of extract_response that does not look at the kind of the reply.
extract_response_kind_unchecked(action, got) ==
  IF ~got.response.ok THEN Err(got.response.message)
  ELSE IF action = "capabilities" /\ got.action # action
  THEN Ok([capabilities |-> DefaultPermissions])
  ELSE Ok(got.response.value)

\* Request::extract_response followed by Response::response and
\* map_err(Error::WidgetErrorReply): the value WidgetProxy::send returns for
\* the reply `got` to a request of kind `action`.
extract_response(action, got) ==
  IF got.action # action THEN Err(ErrInvalidResponse)
  ELSE IF got.response.ok THEN Ok(got.response.value)
  ELSE Err(got.response.message)

\* A variant in which every failed initialize() ends listen().
InitializeFailed_fatal(error) ==
  Listen("done", NoMsg, NoResponse, "recv", lneg, NoCall, DefaultPermissions, error)

\* initialize() returned Err: listen() gives up when it made the call itself,
\* handle() passes the error on to listen().
InitializeFailed(error) ==
  IF lneg = "eager"
  THEN Listen("done", NoMsg, NoResponse, "recv", lneg, NoCall, DefaultPermissions, error)
  ELSE Listen("fail_reply", lcur, NoResponse, "recv", lneg, NoCall, DefaultPermissions, error)

\* A variant of SendReturns in which initialize() goes on with no desired
\* permissions when its CapabilitiesRequest has failed.
SendReturns_capabilities_unchecked(result) ==
  /\ nInitialized' = IF lcall.action = "notify_capabilities" /\ result.st = "ok"
                     THEN nInitialized + 1 ELSE nInitialized
  /\ CASE lcall.action = "capabilities" ->
            Listen("acquire_permissions", lcur, NoResponse, "recv", lneg, NoCall,
                   IF result.st = "ok" THEN result.value.capabilities ELSE DefaultPermissions,
                   "")
       [] lcall.action = "notify_capabilities" ->
            IF result.st = "ok"
            THEN Listen("recv", NoMsg, NoResponse, "recv", lneg, NoCall, DefaultPermissions, "")
            ELSE InitializeFailed(result.error)
       [] OTHER ->
            IF result.st = "ok"
            THEN Listen("recv", NoMsg, NoResponse, "recv", lneg, NoCall, DefaultPermissions, "")
            ELSE Listen("fail_reply", lcur, NoResponse, "recv", lneg, NoCall,
                        DefaultPermissions, result.error)

\* WidgetProxy::send returned `result` to its caller in State::initialize or
\* State::handle, which runs on to its next suspension point.
SendReturns(result) ==
  /\ nInitialized' = IF lcall.action = "notify_capabilities" /\ result.st = "ok"
                     THEN nInitialized + 1 ELSE nInitialized
  /\ CASE lcall.action = "capabilities" ->
            IF result.st = "ok"
            THEN Listen("acquire_permissions", lcur, NoResponse, "recv", lneg, NoCall,
                        result.value.capabilities, "")
            ELSE InitializeFailed(result.error)
       [] lcall.action = "notify_capabilities" ->
            IF result.st = "ok"
            THEN Listen("recv", NoMsg, NoResponse, "recv", lneg, NoCall, DefaultPermissions, "")
            ELSE InitializeFailed(result.error)
       [] OTHER ->
            IF result.st = "ok"
            THEN Listen("recv", NoMsg, NoResponse, "recv", lneg, NoCall, DefaultPermissions, "")
            ELSE Listen("fail_reply", lcur, NoResponse, "recv", lneg, NoCall,
                        DefaultPermissions, result.error)

\* A variant of SendWrite that has put the entry into the pending table
\* before it writes, and leaves it there when the write fails.
SendWrite_insert_first ==
  /\ lpc = "send_write"
  /\ sinkClosed \/ ~SinkFull
  /\ IF sinkClosed
     THEN /\ SendReturns(Err(ErrWidgetDisconnected))
          /\ pending' = pending \cup {lcall.id}
          /\ UNCHANGED wireVars
     ELSE /\ Written(OutgoingMessage(lcall.id, SettingsId, lcall.action, lcall.data))
          /\ lpc' = "send_insert"
          /\ UNCHANGED << lcur, lresp, lnext, lneg, lcall, ldesired, lerr, lroom, nInitialized,
                          pending >>
  /\ UNCHANGED << init_on_load, calls, apiVars, from, fromClosed, sinkClosed, seen, widgetVars,
                  driverVars, rx, rxClosed, lock, chan, nextId, stateVars, collabVars >>

\* self.sink.send(message).await: the request is on the transport, or the
\* widget is disconnected.
SendWrite ==
  /\ lpc = "send_write"
  /\ sinkClosed \/ ~SinkFull
  /\ IF sinkClosed
     THEN /\ SendReturns(Err(ErrWidgetDisconnected))
          /\ UNCHANGED wireVars
     ELSE /\ Written(OutgoingMessage(lcall.id, SettingsId, lcall.action, lcall.data))
          /\ lpc' = "send_insert"
          /\ UNCHANGED << lcur, lresp, lnext, lneg, lcall, ldesired, lerr, lroom, nInitialized >>
  /\ UNCHANGED << init_on_load, calls, apiVars, from, fromClosed, sinkClosed, seen, widgetVars,
                  driverVars, rx, rxClosed, lock, pending, chan, nextId, stateVars,
                  collabVars >>

\* The oneshot channel is created and its sender inserted into `pending`
\* under the lock.
SendInsert ==
  /\ lpc = "send_insert"
  /\ lock = "free"
  /\ pending' = pending \cup {lcall.id}
  /\ chan' = [chan EXCEPT ![lcall.id] = ChanOpen]
  /\ lpc' = "send_wait"
  /\ UNCHANGED << init_on_load, calls, apiVars, transportVars, historyVars, widgetVars,
                  driverVars, rx,
                  rxClosed, lock, nextId, nInitialized, lcur, lresp, lnext, lneg, lcall,
                  ldesired, lerr, lroom, stateVars, collabVars >>

\* timeout(.., rx).await yields the reply delivered to the oneshot.
SendReceive ==
  /\ lpc = "send_wait"
  /\ chan[lcall.id].st = "sent"
  /\ SendReturns(extract_response(lcall.action, chan[lcall.id]))
  /\ chan' = [chan EXCEPT ![lcall.id] = ChanUnused]
  /\ UNCHANGED << init_on_load, calls, apiVars, transportVars, historyVars, widgetVars,
                  driverVars, rx,
                  rxClosed, lock, pending, nextId, stateVars, collabVars >>

\* timeout(.., rx).await yields Elapsed: the receiver is dropped with the
\* timeout future; the closure of map_err has not run yet.
SendTimeout ==
  /\ lpc = "send_wait"
  /\ chan[lcall.id].st = "open"
  /\ chan' = [chan EXCEPT ![lcall.id] = ChanDropped]
  /\ lpc' = "send_elapsed"
  /\ UNCHANGED << init_on_load, calls, apiVars, transportVars, historyVars, widgetVars,
                  driverVars, rx,
                  rxClosed, lock, pending, nextId, nInitialized, lcur, lresp, lnext, lneg,
                  lcall, ldesired, lerr, lroom, stateVars, collabVars >>

\* A variant of timeout_remove that forgets to remove the entry.
timeout_remove_kept(id) == pending

\* A variant of timeout_remove that empties the table.
timeout_remove_all(id) == {}

\* pending.lock().remove(&id) in the closure of map_err.
timeout_remove(id) == pending \ {id}

\* The closure of map_err: the entry is removed under the lock, and the call
\* returns the timeout error.
SendTimeoutRemove ==
  /\ lpc = "send_elapsed"
  /\ lock = "free"
  /\ pending' = timeout_remove(lcall.id)
  /\ chan' = [chan EXCEPT ![lcall.id] = ChanUnused]
  /\ SendReturns(Err(ErrTimeout))
  /\ UNCHANGED << init_on_load, calls, apiVars, transportVars, historyVars, widgetVars,
                  driverVars, rx,
                  rxClosed, lock, nextId, stateVars, collabVars >>

(***************************************************************************)
(* The pure parts of read() and send().                                    *)
(***************************************************************************)
\* The page size of the fetch.
read_limit(req) ==
  IF req.limit.some THEN req.limit.v
  ELSE IF req.state_key # NoKey THEN DefaultStateLimit
  ELSE DefaultMessageLimit

\* The additional state key filter of read().
state_key_filter(req, ev) ==
  IF req.state_key \notin {NoKey, AnyKey}
  THEN FilterMatches(StateWithTypeAndStateKey(req.event_type, req.state_key), ev)
  ELSE TRUE

\* A variant of read_keeps that does not look at whether the event
\* deserializes.
read_keeps_unparsed(raw, req, filters) ==
  any_matches(filters, raw) /\ state_key_filter(req, raw)

\* Whether read() keeps a fetched event: one that does not deserialize is
\* dropped, the others are kept when permitted and selected.
read_keeps(raw, req, filters) ==
  raw.ok /\ any_matches(filters, raw) /\ state_key_filter(req, raw)

\* The filter over the fetched chunk.
read_filter(chunk, req, filters) ==
  SelectSeq(chunk, LAMBDA raw : read_keeps(raw, req, filters))

\* MatrixEventFilterInput::from_send_event_request
from_send_event_request(req) ==
  [event_type |-> req.event_type, state_key |-> req.state_key,
   msgtype |-> req.content.msgtype]

\* A variant of send_check that only looks at whether there are filters.
send_check_unmatched(req, filters) ==
  IF filters = <<>> THEN "No permissions to send events" ELSE ""

\* The checks of send() before the room is touched: "" when the event may be
\* sent, else the error.
send_check(req, filters) ==
  IF filters = <<>> THEN "No permissions to send events"
  ELSE IF ~any_matches(filters, from_send_event_request(req)) THEN "Message not allowed by filter"
  ELSE ""

\* A variant of read_check that also rejects a request none of the filters
\* matches.
read_check_request_filtered(req, filters) ==
  IF filters = <<>> THEN "No permissions to read any events"
  ELSE IF ~any_matches(filters, [event_type |-> req.event_type, state_key |-> req.state_key,
                                 msgtype |-> NoMsgtype])
  THEN "Not allowed"
  ELSE ""

\* The check of read() before the room is touched.
read_check(req, filters) ==
  IF filters = <<>> THEN "No permissions to read any events" ELSE ""

\* SupportedApiVersionsResponse::new
SupportedApiVersions == << "0.0.1", "0.0.2", "org.matrix.msc2762", "org.matrix.msc2871",
                           "org.matrix.msc3819" >>

\* The decision of handle() for ContentLoaded: response and whether to negotiate.
content_loaded_decision(onLoad, isInitialized) ==
  IF onLoad /\ ~isInitialized THEN [response |-> Success(Empty), negotiate |-> TRUE]
  ELSE IF onLoad /\ isInitialized THEN [response |-> Failure("Already loaded"), negotiate |-> FALSE]
  ELSE [response |-> Success(Empty), negotiate |-> FALSE]

RoomCall(op, limit, filters) ==
  [NoRoomCall EXCEPT !.op = op, !.limit = limit, !.filters = filters]

(***************************************************************************)
(* State::listen and State::handle.                                        *)
(***************************************************************************)
\* A variant that negotiates right away whatever the settings say.
ListenStart_always_eager ==
  /\ lpc = "init"
  /\ BeginSend(NoMsg, "eager", DefaultPermissions, "capabilities", Empty)
  /\ UNCHANGED << init_on_load, calls, apiVars, transportVars, historyVars, widgetVars,
                  driverVars, rx,
                  rxClosed, lock, pending, chan, nInitialized, stateVars, collabVars >>

\* listen() starts: negotiate right away unless the widget initializes on load.
ListenStart ==
  /\ lpc = "init"
  /\ IF ~init_on_load
     THEN BeginSend(NoMsg, "eager", DefaultPermissions, "capabilities", Empty)
     ELSE /\ Listen("recv", NoMsg, NoResponse, "recv", lneg, NoCall, DefaultPermissions, "")
          /\ nextId' = nextId
  /\ UNCHANGED << init_on_load, calls, apiVars, transportVars, historyVars, widgetVars,
                  driverVars, rx,
                  rxClosed, lock, pending, chan, nInitialized, stateVars, collabVars >>

\* rx.recv() yields None: the loop ends.
ListenRxClosed ==
  /\ lpc = "recv" /\ rx = <<>> /\ rxClosed
  /\ lpc' = "done"
  /\ UNCHANGED << init_on_load, calls, apiVars, transportVars, historyVars, widgetVars,
                  driverVars, rx,
                  rxClosed, proxyVars, lcur, lresp, lnext, lneg, lcall, ldesired, lerr,
                  lroom, stateVars, collabVars >>

HandleGetSupportedApiVersion ==
  /\ lpc = "recv" /\ rx # <<>> /\ Head(rx).action = "supported_api_versions"
  /\ rx' = Tail(rx)
  /\ Listen("reply", Head(rx), Success([versions |-> SupportedApiVersions]), "recv",
            lneg, NoCall, DefaultPermissions, "")
  /\ UNCHANGED << init_on_load, calls, apiVars, transportVars, historyVars, widgetVars, driverVars,
                  rxClosed, proxyVars, stateVars, collabVars >>

\* A variant that starts the negotiation without writing the reply first.
HandleContentLoaded_negotiate_first ==
  /\ lpc = "recv" /\ rx # <<>> /\ Head(rx).action = "content_loaded"
  /\ rx' = Tail(rx)
  /\ LET d == content_loaded_decision(init_on_load, initialized) IN
       IF d.negotiate
       THEN BeginSend(Head(rx), "loaded", DefaultPermissions, "capabilities", Empty)
       ELSE /\ Listen("reply", Head(rx), d.response, "recv", lneg, NoCall,
                      DefaultPermissions, "")
            /\ nextId' = nextId
  /\ UNCHANGED << init_on_load, calls, apiVars, transportVars, historyVars, widgetVars, driverVars,
                  rxClosed, lock, pending, chan, nInitialized, stateVars, collabVars >>

HandleContentLoaded ==
  /\ lpc = "recv" /\ rx # <<>> /\ Head(rx).action = "content_loaded"
  /\ rx' = Tail(rx)
  /\ LET d == content_loaded_decision(init_on_load, initialized) IN
       Listen("reply", Head(rx), d.response, IF d.negotiate THEN "negotiate" ELSE "recv",
              lneg, NoCall, DefaultPermissions, "")
  /\ UNCHANGED << init_on_load, calls, apiVars, transportVars, historyVars, widgetVars, driverVars,
                  rxClosed, proxyVars, stateVars, collabVars >>

\* A variant that waits for the token without writing the Pending reply.
HandleGetOpenId_update_first ==
  /\ lpc = "recv" /\ rx # <<>> /\ Head(rx).action = "get_openid"
  /\ rx' = Tail(rx)
  /\ tokenTask' = "running"
  /\ Listen("await_token", Head(rx), NoResponse, "recv", lneg, NoCall, DefaultPermissions, "")
  /\ UNCHANGED << init_on_load, calls, apiVars, transportVars, historyVars, widgetVars, driverVars,
                  rxClosed, proxyVars, stateVars, nAcquired,
                  policyAnswer >>

\* Driver::get_openid spawns the token fetch; the reply is Pending.
HandleGetOpenId ==
  /\ lpc = "recv" /\ rx # <<>> /\ Head(rx).action = "get_openid"
  /\ rx' = Tail(rx)
  /\ tokenTask' = "running"
  /\ Listen("reply", Head(rx), Success([state |-> "request"]), "openid",
            lneg, NoCall, DefaultPermissions, "")
  /\ UNCHANGED << init_on_load, calls, apiVars, transportVars, historyVars, widgetVars, driverVars,
                  rxClosed, proxyVars, stateVars, nAcquired,
                  policyAnswer >>

\* read() up to room.messages(options).await.
HandleReadEvent ==
  /\ lpc = "recv" /\ rx # <<>> /\ Head(rx).action = "read_events"
  /\ rx' = Tail(rx)
  /\ LET req == Head(rx)
         error == read_check(req.data, permissions.read) IN
       IF error # ""
       THEN Listen("fail_reply", req, NoResponse, "recv", lneg, NoCall, DefaultPermissions,
                   error)
       ELSE ListenRoom("room_messages", req, NoResponse, "recv", lneg, NoCall,
                       DefaultPermissions, "",
                       RoomCall("messages", read_limit(req.data), permissions.read))
  /\ UNCHANGED << init_on_load, calls, apiVars, transportVars, historyVars, widgetVars, driverVars,
                  rxClosed, proxyVars, stateVars, collabVars >>

\* room.messages returns: an error, or a chunk that read() filters.
RoomMessagesReturn ==
  /\ lpc = "room_messages"
  /\ \/ ListenRoom("fail_reply", lcur, NoResponse, "recv", lneg, NoCall, DefaultPermissions,
                   "room: messages failed", [lroom EXCEPT !.returned = TRUE])
     \/ \E chunk \in RoomChunks :
          ListenRoom("reply", lcur,
                     Success([events |-> read_filter(chunk, lcur.data, lroom.filters)]),
                     "recv", lneg, NoCall, DefaultPermissions, "",
                     [lroom EXCEPT !.returned = TRUE, !.chunk = chunk])
  /\ UNCHANGED << init_on_load, calls, apiVars, transportVars, historyVars, widgetVars,
                  driverVars, rx,
                  rxClosed, proxyVars, stateVars, collabVars >>

\* A variant of HandleSendEvent that sends every event as a message-like
\* event.
HandleSendEvent_always_message ==
  /\ lpc = "recv" /\ rx # <<>> /\ Head(rx).action = "send_event"
  /\ rx' = Tail(rx)
  /\ LET req == Head(rx)
         error == send_check(req.data, permissions.send) IN
       IF error # ""
       THEN Listen("fail_reply", req, NoResponse, "recv", lneg, NoCall, DefaultPermissions,
                   error)
       ELSE ListenRoom("room_send", req, NoResponse, "recv", lneg, NoCall,
                       DefaultPermissions, "",
                       [RoomCall("send_raw", None.v, permissions.send)
                          EXCEPT !.event_type = req.data.event_type])
  /\ UNCHANGED << init_on_load, calls, apiVars, transportVars, historyVars, widgetVars,
                  driverVars, rxClosed, proxyVars, stateVars, collabVars >>

\* send() up to room.send_state_event_raw(..).await or room.send_raw(..).await.
HandleSendEvent ==
  /\ lpc = "recv" /\ rx # <<>> /\ Head(rx).action = "send_event"
  /\ rx' = Tail(rx)
  /\ LET req == Head(rx)
         error == send_check(req.data, permissions.send) IN
       IF error # ""
       THEN Listen("fail_reply", req, NoResponse, "recv", lneg, NoCall, DefaultPermissions,
                   error)
       ELSE ListenRoom("room_send", req, NoResponse, "recv", lneg, NoCall,
                       DefaultPermissions, "",
                       IF req.data.state_key # NoKey
                       THEN [RoomCall("send_state_event_raw", None.v, permissions.send)
                               EXCEPT !.event_type = req.data.event_type,
                                      !.state_key = req.data.state_key]
                       ELSE [RoomCall("send_raw", None.v, permissions.send)
                               EXCEPT !.event_type = req.data.event_type])
  /\ UNCHANGED << init_on_load, calls, apiVars, transportVars, historyVars, widgetVars,
                  driverVars, rxClosed, proxyVars, stateVars, collabVars >>

\* The room send returns: an error, or the id the server gave the new event,
\* which send() puts into the response with the id of the room.
RoomSendReturn ==
  /\ lpc = "room_send"
  /\ \/ ListenRoom("fail_reply", lcur, NoResponse, "recv", lneg, NoCall, DefaultPermissions,
                   "room: send failed", [lroom EXCEPT !.returned = TRUE])
     \/ \E event_id \in {"$e1", "$e2"} :
          ListenRoom("reply", lcur, Success([room_id |-> RoomId, event_id |-> event_id]),
                     "recv", lneg, NoCall, DefaultPermissions, "",
                     [lroom EXCEPT !.returned = TRUE, !.event_id = event_id])
  /\ UNCHANGED << init_on_load, calls, apiVars, transportVars, historyVars, widgetVars,
                  driverVars, rx, rxClosed, proxyVars, stateVars, collabVars >>

\* State::reply of the response handle() built, and what handle() does next.
Reply ==
  /\ lpc = "reply"
  /\ sinkClosed \/ ~SinkFull
  /\ IF sinkClosed
     THEN /\ Listen("fail_reply", lcur, NoResponse, "recv", lneg, NoCall, DefaultPermissions,
                    ErrWidgetDisconnected)
          /\ UNCHANGED << wireVars, nextId >>
     ELSE /\ Written(map(lcur, lresp))
          /\ CASE lnext = "negotiate" ->
                    BeginSend(lcur, "loaded", DefaultPermissions, "capabilities", Empty)
               [] lnext = "openid" ->
                    /\ Listen("await_token", lcur, NoResponse, "recv", lneg, NoCall,
                              DefaultPermissions, "")
                    /\ nextId' = nextId
               [] OTHER ->
                    /\ Listen("recv", NoMsg, NoResponse, "recv", lneg, NoCall,
                              DefaultPermissions, "")
                    /\ nextId' = nextId
  /\ UNCHANGED << init_on_load, calls, apiVars, from, fromClosed, sinkClosed, seen, widgetVars,
                  driverVars, rx, rxClosed, lock, pending, chan, nInitialized, stateVars,
                  collabVars >>

\* listen(): handle() returned Err, so the failure reply is written; the loop
\* ends when that write fails.
FailReply ==
  /\ lpc = "fail_reply"
  /\ sinkClosed \/ ~SinkFull
  /\ IF sinkClosed
     THEN /\ Listen("done", NoMsg, NoResponse, "recv", lneg, NoCall, DefaultPermissions, "")
          /\ UNCHANGED wireVars
     ELSE /\ Written(fail(lcur, lerr))
          /\ Listen("recv", NoMsg, NoResponse, "recv", lneg, NoCall, DefaultPermissions, "")
  /\ UNCHANGED << init_on_load, calls, apiVars, from, fromClosed, sinkClosed, seen, widgetVars,
                  driverVars, rx, rxClosed, proxyVars, stateVars, collabVars >>

\* A variant that keeps what the widget asked for.
stored_permissions_desired(desired, approved) == desired

\* The permissions State::initialize stores: the first component of what
\* Driver::initialize returned, which is the answer of the provider.
stored_permissions(desired, approved) == approved

\* Driver::initialize: the permissions provider answers, the event handler is
\* set up when there is something to read; State::initialize stores both and
\* starts the CapabilitiesUpdate request.
AcquirePermissions ==
  /\ lpc = "acquire_permissions"
  /\ \E approved \in ApprovedSet :
       /\ policyAnswer' = approved
       /\ permissions' = stored_permissions(ldesired, approved)
       /\ listener' = (approved.read # <<>>)
       /\ event_handler_handle' =
            IF approved.read # <<>> THEN approved.read ELSE event_handler_handle
       /\ listener_rx' = <<>>
       /\ nAcquired' = nAcquired + 1
       /\ BeginSend(lcur, lneg, DefaultPermissions, "notify_capabilities",
                    [requested |-> ldesired, approved |-> permissions'])
  /\ UNCHANGED << init_on_load, calls, apiVars, transportVars, historyVars, widgetVars,
                  driverVars, rx,
                  rxClosed, lock, pending, chan, nInitialized, initialized, tokenTask >>

\* A variant of the callback's test that passes every event on.
matrix_event_callback_passes_all(filters, raw) == TRUE

\* The test of the callback of setup_matrix_event_handler: the event
\* deserializes as a filter input and one of the filters matches it.
matrix_event_callback_passes(filters, raw) == raw.ok /\ any_matches(filters, raw)

\* The event the callback sends on: the raw event with the room id put in.
with_room_id(raw) == [ev |-> raw, room_id |-> RoomId]

\* The callback of setup_matrix_event_handler runs for a room event: an event
\* that passes the test is sent on the channel, and the send fails when the
\* receiver has been dropped.  The handler is registered while the drop
\* guard lives, that is until listen() returns and the driver is dropped.
MatrixEventCallback ==
  /\ event_handler_handle # <<>> /\ lpc # "done"
  /\ Len(listener_rx) < MaxRoomEvents
  /\ \E raw \in RawEvents :
       listener_rx' = IF matrix_event_callback_passes(event_handler_handle, raw) /\ listener
                      THEN Append(listener_rx, with_room_id(raw)) ELSE listener_rx
  /\ UNCHANGED << init_on_load, calls, apiVars, transportVars, historyVars, widgetVars,
                  driverVars, rx,
                  rxClosed, proxyVars, listenVars, permissions, listener, initialized,
                  event_handler_handle, collabVars >>

\* The task spawned by Driver::get_openid finishes its request.
TokenFetch ==
  /\ tokenTask = "running"
  /\ tokenTask' \in {"allowed", "blocked"}
  /\ UNCHANGED << init_on_load, calls, apiVars, transportVars, historyVars, widgetVars,
                  driverVars, rx,
                  rxClosed, proxyVars, listenVars, stateVars, nAcquired,
                  policyAnswer >>

\* A variant of OpenIdAllowed that carries the id of the push itself.
OpenIdAllowed_own_id(request_id) == [state |-> "allowed", original_request_id |-> nextId]

\* OpenIdDecision::Allowed(OpenIdState { id: request_id, .. }) and
\* OpenIdDecision::Blocked, as the OpenIdResponse they convert into.
OpenIdAllowed(request_id) == [state |-> "allowed", original_request_id |-> request_id]
OpenIdBlocked == [state |-> "blocked", original_request_id |-> UnsolicitedId]

\* handle(): the token task's status arrives and the OpenIdCredentialsUpdate
\* request starts.
AwaitToken ==
  /\ lpc = "await_token"
  /\ tokenTask \in {"allowed", "blocked"}
  /\ tokenTask' = "idle"
  /\ BeginSend(lcur, lneg, DefaultPermissions, "openid_credentials",
               IF tokenTask = "allowed" THEN OpenIdAllowed(lcur.header.request_id)
               ELSE OpenIdBlocked)
  /\ UNCHANGED << init_on_load, calls, apiVars, transportVars, historyVars, widgetVars,
                  driverVars, rx,
                  rxClosed, lock, pending, chan, nInitialized, stateVars, nAcquired,
                  policyAnswer >>

(***************************************************************************)
(* The session.                                                            *)
(***************************************************************************)
Next ==
  \/ WidgetSendRequest \/ WidgetSendResponse \/ WidgetSendUnsolicited
  \/ WidgetSendGarbage \/ WidgetConsume
  \/ TransportCloseFrom \/ TransportCloseSink
  \/ DriverRecv \/ DriverDecodeError \/ DriverClosed
  \/ handle_widget_response \/ handle_widget_response_error
  \/ ListenStart \/ ListenRxClosed
  \/ HandleGetSupportedApiVersion \/ HandleContentLoaded \/ HandleGetOpenId
  \/ HandleReadEvent \/ RoomMessagesReturn \/ HandleSendEvent \/ RoomSendReturn
  \/ Reply \/ FailReply \/ AcquirePermissions \/ TokenFetch \/ AwaitToken
  \/ SendWrite \/ SendInsert \/ SendReceive \/ SendTimeout \/ SendTimeoutRemove
  \/ MatrixEventCallback

(***************************************************************************)
(* ClientApi: the state machine fed with events by the client, which       *)
(* answers with actions on a channel and runs the slow parts as tasks.     *)
(***************************************************************************)
NoPermissions == [some |-> FALSE, v |-> DefaultPermissions]
Task(kind, msg) == [kind |-> kind, msg |-> msg, st |-> "spawned"]

\* ClientApi::new: the negotiation is spawned right away unless the widget
\* is to be waited for.
ClientApiNew(onLoad) ==
  /\ init_on_content_load \in onLoad
  /\ api_permissions = NoPermissions
  /\ tasks = IF init_on_content_load THEN <<>> ELSE << Task("negotiate", NoMsg) >>
  /\ actions = <<>>
  /\ nEvents = 0 /\ nUndecoded = 0 /\ nToWidget = 0
  /\ emitted = [replies |-> [r \in ApiReqIds |-> 0], errors |-> 0]

\* let _ = actions.send(Action::SendToWidget(raw)); the tally of what was
\* sent.  The send fails, and nothing is queued, once the receiver of the
\* channel is dropped.
SendToWidget(text) ==
  IF rpc = "err"
  THEN UNCHANGED << actions, emitted >>
  ELSE /\ actions' = Append(actions, text)
       /\ emitted' = IF text.api = "fromWidget"
                     THEN [emitted EXCEPT !.replies[text.request_id] = @ + 1]
                     ELSE IF text.api = "error" THEN [emitted EXCEPT !.errors = @ + 1]
                     ELSE emitted

\* RequestProxy::send is todo!(): the call panics, and the task that made it
\* ends there.
RequestProxy_send == [panics |-> TRUE]

\* negotiate_permissions: its first step is a call of RequestProxy::send.
negotiate_permissions == RequestProxy_send

\* The filters of the permissions, none when there are no permissions yet.
api_filters(side) ==
  IF api_permissions.some
  THEN (IF side = "read" THEN api_permissions.v.read ELSE api_permissions.v.send)
  ELSE <<>>

\* The decision of process() for ContentLoaded.
api_content_loaded(onLoad, perms) ==
  IF onLoad /\ ~perms.some THEN [response |-> Success(Empty), negotiate |-> TRUE]
  ELSE IF onLoad /\ perms.some THEN [response |-> Failure("Already loaded"), negotiate |-> FALSE]
  ELSE [response |-> Success(Empty), negotiate |-> FALSE]

\* The texts the client can hand to process() as its next event.
ApiTexts ==
  { RawRequest(WidgetReqBase + nEvents + 1, SettingsId, body[1], body[2]) :
      body \in WidgetRequestBodies }
  \cup { RawResponse(UnsolicitedId, SettingsId, UnsolicitedBody[1], UnsolicitedBody[2]) }
  \cup GarbageTexts

\* process(Event::MessageFromWidget(raw)) for a GetSupportedApiVersion request.
ProcessGetSupportedApiVersion ==
  /\ nEvents < MaxEvents
  /\ \E raw \in ApiTexts :
       LET msg == from_json(raw) IN
         /\ msg.ok /\ msg.kind = "FromWidget" /\ msg.action = "supported_api_versions"
         /\ SendToWidget(map(msg, Success([versions |-> SupportedApiVersions])))
  /\ nEvents' = nEvents + 1
  /\ UNCHANGED << init_on_load, calls, runVars, transportVars, historyVars, widgetVars,
                  driverVars, rx,
                  rxClosed, proxyVars, listenVars, stateVars, collabVars,
                  init_on_content_load, api_permissions, tasks, nUndecoded, nToWidget >>

\* process() for ContentLoaded: the reply is sent, and a negotiation is
\* spawned when there are no permissions yet.
ProcessContentLoaded ==
  /\ nEvents < MaxEvents
  /\ \E raw \in ApiTexts :
       LET msg == from_json(raw)
           d == api_content_loaded(init_on_content_load, api_permissions) IN
         /\ msg.ok /\ msg.kind = "FromWidget" /\ msg.action = "content_loaded"
         /\ SendToWidget(map(msg, d.response))
         /\ tasks' = IF d.negotiate THEN Append(tasks, Task("negotiate", NoMsg)) ELSE tasks
  /\ nEvents' = nEvents + 1
  /\ UNCHANGED << init_on_load, calls, runVars, transportVars, historyVars, widgetVars,
                  driverVars, rx,
                  rxClosed, proxyVars, listenVars, stateVars, collabVars,
                  init_on_content_load, api_permissions, nUndecoded, nToWidget >>

\* process() for GetOpenId, ReadEvent and SendEvent: a task is spawned.
ProcessSpawn ==
  /\ nEvents < MaxEvents
  /\ \E raw \in ApiTexts :
       LET msg == from_json(raw) IN
         /\ msg.ok /\ msg.kind = "FromWidget"
         /\ msg.action \in {"get_openid", "read_events", "send_event"}
         /\ tasks' = Append(tasks, Task(msg.action, msg))
  /\ nEvents' = nEvents + 1
  /\ UNCHANGED << init_on_load, calls, runVars, transportVars, historyVars, widgetVars,
                  driverVars, rx,
                  rxClosed, proxyVars, listenVars, stateVars, collabVars,
                  init_on_content_load, api_permissions, actions, nUndecoded, nToWidget, emitted >>

\* process() for a reply of the widget: the arm is empty.
ProcessToWidget ==
  /\ nEvents < MaxEvents
  /\ \E raw \in ApiTexts :
       LET msg == from_json(raw) IN msg.ok /\ msg.kind = "ToWidget"
  /\ nEvents' = nEvents + 1
  /\ nToWidget' = nToWidget + 1
  /\ UNCHANGED << init_on_load, calls, runVars, transportVars, historyVars, widgetVars,
                  driverVars, rx,
                  rxClosed, proxyVars, listenVars, stateVars, collabVars,
                  init_on_content_load, api_permissions, actions, tasks, nUndecoded,
                  emitted >>

\* process() for a text that does not decode: the arm holds a comment only.
ProcessDecodeError ==
  /\ nEvents < MaxEvents
  /\ \E raw \in ApiTexts : ~from_json(raw).ok
  /\ nEvents' = nEvents + 1
  /\ nUndecoded' = nUndecoded + 1
  /\ UNCHANGED << init_on_load, calls, runVars, transportVars, historyVars, widgetVars,
                  driverVars, rx,
                  rxClosed, proxyVars, listenVars, stateVars, collabVars,
                  init_on_content_load, api_permissions, actions, tasks, nToWidget,
                  emitted >>

\* process(Event::MatrixEventReceived(event)): a task is spawned.
ProcessMatrixEventReceived ==
  /\ nEvents < MaxEvents
  /\ tasks' = Append(tasks, Task("notify", NoMsg))
  /\ nEvents' = nEvents + 1
  /\ UNCHANGED << init_on_load, calls, runVars, transportVars, historyVars, widgetVars,
                  driverVars, rx,
                  rxClosed, proxyVars, listenVars, stateVars, collabVars,
                  init_on_content_load, api_permissions, actions, nUndecoded, nToWidget, emitted >>

Spawned(kind) == { i \in DOMAIN tasks : tasks[i].kind = kind /\ tasks[i].st = "spawned" }
Ends(i, st) == tasks' = [tasks EXCEPT ![i].st = st]

\* A negotiation task runs: negotiate_permissions panics in its first call,
\* so the permissions are never replaced.
NegotiateTask ==
  /\ \E i \in Spawned("negotiate") :
       IF negotiate_permissions.panics
       THEN Ends(i, "panicked") /\ UNCHANGED api_permissions
       ELSE Ends(i, "done") /\ api_permissions' = [some |-> TRUE, v |-> DefaultPermissions]
  /\ UNCHANGED << init_on_load, calls, runVars, transportVars, historyVars, widgetVars,
                  driverVars, rx,
                  rxClosed, proxyVars, listenVars, stateVars, collabVars,
                  init_on_content_load, actions, nEvents, nUndecoded, nToWidget, emitted >>

\* The task of a GetOpenId request: the Pending reply is sent, then the token
\* is asked for.
GetOpenIdTask ==
  /\ \E i \in Spawned("get_openid") :
       /\ SendToWidget(map(tasks[i].msg, Success([state |-> "request"])))
       /\ Ends(i, IF RequestProxy_send.panics THEN "panicked" ELSE "done")
  /\ UNCHANGED << init_on_load, calls, runVars, transportVars, historyVars, widgetVars,
                  driverVars, rx,
                  rxClosed, proxyVars, listenVars, stateVars, collabVars,
                  init_on_content_load, api_permissions, nEvents, nUndecoded, nToWidget >>

\* The filter input process() builds from a ReadEvent request.
api_read_input(req) ==
  [event_type |-> req.event_type, state_key |-> req.state_key, msgtype |-> NoMsgtype]

\* The task of a ReadEvent request: without a matching read filter the
\* failure reply is sent; else the events are asked for.
ReadEventTask ==
  /\ \E i \in Spawned("read_events") :
       IF ~any_matches(api_filters("read"), api_read_input(tasks[i].msg.data))
       THEN /\ SendToWidget(fail(tasks[i].msg, "No permissions to read events"))
            /\ Ends(i, "done")
       ELSE /\ Ends(i, IF RequestProxy_send.panics THEN "panicked" ELSE "done")
            /\ UNCHANGED << actions, emitted >>
  /\ UNCHANGED << init_on_load, calls, runVars, transportVars, historyVars, widgetVars,
                  driverVars, rx,
                  rxClosed, proxyVars, listenVars, stateVars, collabVars,
                  init_on_content_load, api_permissions, nEvents, nUndecoded, nToWidget >>

\* The task of a SendEvent request.
SendEventTask ==
  /\ \E i \in Spawned("send_event") :
       IF ~any_matches(api_filters("send"), from_send_event_request(tasks[i].msg.data))
       THEN /\ SendToWidget(fail(tasks[i].msg, "No permissions to send events"))
            /\ Ends(i, "done")
       ELSE /\ Ends(i, IF RequestProxy_send.panics THEN "panicked" ELSE "done")
            /\ UNCHANGED << actions, emitted >>
  /\ UNCHANGED << init_on_load, calls, runVars, transportVars, historyVars, widgetVars,
                  driverVars, rx,
                  rxClosed, proxyVars, listenVars, stateVars, collabVars,
                  init_on_content_load, api_permissions, nEvents, nUndecoded, nToWidget >>

\* The task of a room event: it is passed on when something may be read.
MatrixEventTask ==
  /\ \E i \in Spawned("notify") :
       IF api_filters("read") # <<>>
       THEN Ends(i, IF RequestProxy_send.panics THEN "panicked" ELSE "done")
       ELSE Ends(i, "done")
  /\ UNCHANGED << init_on_load, calls, runVars, transportVars, historyVars, widgetVars,
                  driverVars, rx,
                  rxClosed, proxyVars, listenVars, stateVars, collabVars,
                  init_on_content_load, api_permissions, actions, nEvents, nUndecoded,
                  nToWidget, emitted >>

\* The client takes the next action off the channel and performs it: the
\* text is written to the sink (to.send(msg).await, which waits while the
\* channel is full).  When the sink is closed the client returns Err(()) and
\* drops the receiver of the actions, with what was left in the channel.
TakeAction ==
  /\ rpc = "recv" /\ actions # <<>>
  /\ sinkClosed \/ ~SinkFull
  /\ IF sinkClosed
     THEN rpc' = "err" /\ actions' = <<>> /\ UNCHANGED wireVars
     ELSE rpc' = rpc /\ actions' = Tail(actions) /\ Written(Head(actions))
  /\ UNCHANGED << init_on_load, calls, events_rx, fwd, todo, from, fromClosed, sinkClosed,
                  seen, widgetVars, driverVars, rx, rxClosed, proxyVars, listenVars,
                  stateVars, collabVars, init_on_content_load, api_permissions, tasks,
                  nEvents, nUndecoded, nToWidget, emitted >>

(***************************************************************************)
(* run_widget_api: the forwarding task and the loop over the events.       *)
(***************************************************************************)
NoText == [api |-> "none"]
Event(kind, raw) == [kind |-> kind, raw |-> raw]
Action(kind, text) == [kind |-> kind, text |-> text]

\* The actions whose result run_widget_api sends back as an event.
CommandKinds == {"AcquirePermissions", "GetOpenId", "ReadMatrixEvent", "SendMatrixEvent"}
ResultEvent(kind) ==
  CASE kind = "AcquirePermissions" -> "PermissionsAcquired"
    [] kind = "GetOpenId" -> "OpenIdReceived"
    [] kind = "ReadMatrixEvent" -> "MatrixEventRead"
    [] kind = "SendMatrixEvent" -> "MatrixEventSent"

\* The state of run_widget_api after its setup: the channel of events is
\* empty, the forwarding task is spawned, the loop is about to receive.
RunInit == events_rx = <<>> /\ fwd = "running" /\ rpc = "recv" /\ todo = <<>>

\* The senders of the channel of events: `tx`, owned by the forwarding task,
\* and `events_tx`, owned by run_widget_api until it returns.
tx_alive == fwd = "running"
events_tx_alive == rpc \notin {"ok", "err"}
receiver_alive == rpc \notin {"ok", "err"}

\* The actions process(event) may return for one event: none, or one action.
\* A text for the widget is a failure reply to the request, or an error.
process_actions(event) ==
  LET msg == IF event.kind = "MessageFromWidget" THEN from_json(event.raw) ELSE NoMsg
      text == IF msg.ok /\ msg.kind = "FromWidget"
              THEN fail(msg, "not implemented") ELSE ErrorText("not implemented")
  IN {<<>>, << Action("SendToWidget", text) >>}
       \cup (IF event.kind = "MessageFromWidget"
             THEN { << Action(k, NoText) >> : k \in CommandKinds \cup {"Subscribe", "Unsubscribe"} }
             ELSE {})

\* The forwarding task: from.recv() returned a text, and it is sent on as an
\* event; the outcome of the send is ignored.
Forward ==
  /\ fwd = "running" /\ from # <<>>
  /\ from' = Tail(from)
  /\ events_rx' = IF receiver_alive
               THEN Append(events_rx, Event("MessageFromWidget", Head(from))) ELSE events_rx
  /\ UNCHANGED << init_on_load, calls, init_on_content_load, api_permissions, actions, tasks,
                  nEvents, nUndecoded, nToWidget, emitted, fwd, rpc, todo, fromClosed, sink,
                  sinkClosed, seen, historyVars, widgetVars, driverVars, rx, rxClosed,
                  proxyVars, listenVars, stateVars, collabVars >>

\* The forwarding task: from.recv() returned Err, the channel being closed
\* and empty; the task ends and drops `tx`.
ForwardClosed ==
  /\ fwd = "running" /\ from = <<>> /\ fromClosed
  /\ fwd' = "done"
  /\ UNCHANGED << init_on_load, calls, init_on_content_load, api_permissions, actions, tasks,
                  nEvents, nUndecoded, nToWidget, emitted, events_rx, rpc, todo, transportVars,
                  historyVars, widgetVars, driverVars, rx, rxClosed, proxyVars, listenVars,
                  stateVars, collabVars >>

\* The loop: events_rx.recv() returns the next event, which is processed, or
\* None once the channel is empty and every sender has been dropped.
RunRecv ==
  /\ rpc = "recv"
  /\ IF events_rx # <<>>
     THEN /\ events_rx' = Tail(events_rx)
          /\ \E acts \in process_actions(Head(events_rx)) :
               /\ todo' = acts
               /\ rpc' = IF acts = <<>> THEN "recv" ELSE "act"
     ELSE /\ ~tx_alive /\ ~events_tx_alive
          /\ rpc' = "ok"
          /\ UNCHANGED << events_rx, todo >>
  /\ UNCHANGED << init_on_load, calls, init_on_content_load, api_permissions, actions, tasks,
                  nEvents, nUndecoded, nToWidget, emitted, fwd, transportVars, historyVars,
                  widgetVars, driverVars, rx, rxClosed, proxyVars, listenVars, stateVars,
                  collabVars >>

\* The loop performs one action: a text is written to the sink, and the
\* function returns Err(()) when the sink is closed; the result of a command
\* is sent back as an event.
RunAct ==
  /\ rpc = "act"
  /\ LET a == Head(todo)
         after == IF Len(todo) = 1 THEN "recv" ELSE "act" IN
       IF a.kind = "SendToWidget"
       THEN /\ sinkClosed \/ ~SinkFull
            /\ IF sinkClosed
               THEN rpc' = "err" /\ todo' = <<>> /\ UNCHANGED wireVars
               ELSE rpc' = after /\ todo' = Tail(todo) /\ Written(a.text)
            /\ UNCHANGED events_rx
       ELSE /\ rpc' = after /\ todo' = Tail(todo)
            /\ events_rx' = IF a.kind \in CommandKinds
                         THEN Append(events_rx, Event(ResultEvent(a.kind), NoText)) ELSE events_rx
            /\ UNCHANGED wireVars
  /\ UNCHANGED << init_on_load, calls, init_on_content_load, api_permissions, actions, tasks,
                  nEvents, nUndecoded, nToWidget, emitted, fwd, from, fromClosed, sinkClosed,
                  seen, widgetVars, driverVars, rx, rxClosed, proxyVars, listenVars,
                  stateVars, collabVars >>

(***************************************************************************)
(* Specifications.                                                         *)
(***************************************************************************)
\* The session of the dispatcher (State, WidgetProxy, Driver).
Init == InitSession(BOOLEAN) /\ ClientApiNew({TRUE}) /\ RunInit
Spec == Init /\ [][Next]_vars

\* The session of ClientApi.
InitClientApi == InitSession({TRUE}) /\ ClientApiNew(BOOLEAN) /\ RunInit
NextClientApi ==
  \/ ProcessGetSupportedApiVersion \/ ProcessContentLoaded \/ ProcessSpawn
  \/ ProcessToWidget \/ ProcessDecodeError \/ ProcessMatrixEventReceived
  \/ NegotiateTask \/ GetOpenIdTask \/ ReadEventTask \/ SendEventTask \/ MatrixEventTask
  \/ TakeAction \/ WidgetConsume \/ TransportCloseSink
SpecClientApi == InitClientApi /\ [][NextClientApi]_vars

\* The session of run_widget_api, with the widget at the other end of Comm.
InitRunWidgetApi == InitSession({TRUE}) /\ ClientApiNew({TRUE}) /\ RunInit
NextRunWidgetApi ==
  \/ WidgetSendRequest \/ WidgetSendUnsolicited \/ WidgetSendGarbage \/ WidgetConsume
  \/ TransportCloseFrom \/ TransportCloseSink
  \/ Forward \/ ForwardClosed \/ RunRecv \/ RunAct
SpecRunWidgetApi == InitRunWidgetApi /\ [][NextRunWidgetApi]_vars

(***************************************************************************)
(* WidgetProxy shared by concurrent callers: each task of Callers makes    *)
(* calls of WidgetProxy::send of its own, the session driver hands the     *)
(* widget's replies to handle_widget_response.                             *)
(***************************************************************************)
\* send(): Uuid::new_v4() and the serialisation of the message.  The calls
\* are CapabilitiesRequests, the request to which every outcome of send()
\* can happen.
ProxySendBegin ==
  /\ nextId <= MaxProxyCalls
  /\ \E c \in Callers :
       /\ calls[c].pc \in {"idle", "returned"}
       /\ calls' = [calls EXCEPT ![c] = [NoProxyCall EXCEPT !.pc = "send_write", !.id = nextId,
                                                            !.action = "capabilities"]]
  /\ nextId' = nextId + 1
  /\ UNCHANGED << init_on_load, apiVars, transportVars, historyVars, widgetVars, driverVars,
                  rx, rxClosed, lock, pending, chan, nInitialized, listenVars, stateVars,
                  collabVars >>

\* self.sink.send(message).await.map_err(|_| Error::WidgetDisconnected)?
ProxySendWrite ==
  /\ sinkClosed \/ ~SinkFull
  /\ \E c \in Callers :
       /\ calls[c].pc = "send_write"
       /\ IF sinkClosed
          THEN /\ calls' = [calls EXCEPT ![c].pc = "returned",
                                          ![c].result = Err(ErrWidgetDisconnected)]
               /\ UNCHANGED wireVars
          ELSE /\ Written(OutgoingMessage(calls[c].id, SettingsId, calls[c].action, Empty))
               /\ calls' = [calls EXCEPT ![c].pc = "send_insert"]
  /\ UNCHANGED << init_on_load, apiVars, from, fromClosed, sinkClosed, seen, widgetVars,
                  driverVars, rx, rxClosed, proxyVars, listenVars, stateVars, collabVars >>

\* The oneshot channel is created and its sender inserted into `pending`
\* under the lock.
ProxySendInsert ==
  /\ lock = "free"
  /\ \E c \in Callers :
       /\ calls[c].pc = "send_insert"
       /\ pending' = pending \cup {calls[c].id}
       /\ chan' = [chan EXCEPT ![calls[c].id] = ChanOpen]
       /\ calls' = [calls EXCEPT ![c].pc = "send_wait"]
  /\ UNCHANGED << init_on_load, apiVars, transportVars, historyVars, widgetVars, driverVars,
                  rx, rxClosed, lock, nextId, nInitialized, listenVars, stateVars,
                  collabVars >>

\* timeout(.., rx).await yields the reply delivered to the oneshot.
ProxySendReceive ==
  /\ \E c \in Callers :
       /\ calls[c].pc = "send_wait"
       /\ chan[calls[c].id].st = "sent"
       /\ calls' = [calls EXCEPT ![c].pc = "returned",
                                  ![c].result = extract_response(calls[c].action,
                                                                 chan[calls[c].id])]
       /\ chan' = [chan EXCEPT ![calls[c].id] = ChanUnused]
  /\ UNCHANGED << init_on_load, apiVars, transportVars, historyVars, widgetVars, driverVars,
                  rx, rxClosed, lock, pending, nextId, nInitialized, listenVars, stateVars,
                  collabVars >>

\* A variant of ProxySendTimeout that returns the timeout error at once,
\* without the removal of the entry.
ProxySendTimeout_no_cleanup ==
  /\ \E c \in Callers :
       /\ calls[c].pc = "send_wait"
       /\ chan[calls[c].id].st = "open"
       /\ chan' = [chan EXCEPT ![calls[c].id] = ChanDropped]
       /\ calls' = [calls EXCEPT ![c].pc = "returned", ![c].result = Err(ErrTimeout)]
  /\ UNCHANGED << init_on_load, apiVars, transportVars, historyVars, widgetVars, driverVars,
                  rx, rxClosed, lock, pending, nextId, nInitialized, listenVars, stateVars,
                  collabVars >>

\* timeout(.., rx).await yields Elapsed: the receiver is dropped.
ProxySendTimeout ==
  /\ \E c \in Callers :
       /\ calls[c].pc = "send_wait"
       /\ chan[calls[c].id].st = "open"
       /\ chan' = [chan EXCEPT ![calls[c].id] = ChanDropped]
       /\ calls' = [calls EXCEPT ![c].pc = "send_elapsed"]
  /\ UNCHANGED << init_on_load, apiVars, transportVars, historyVars, widgetVars, driverVars,
                  rx, rxClosed, lock, pending, nextId, nInitialized, listenVars, stateVars,
                  collabVars >>

\* The closure of map_err: the entry is removed under the lock, and the call
\* returns the timeout error.
ProxySendTimeoutRemove ==
  /\ lock = "free"
  /\ \E c \in Callers :
       /\ calls[c].pc = "send_elapsed"
       /\ pending' = timeout_remove(calls[c].id)
       /\ chan' = [chan EXCEPT ![calls[c].id] = ChanUnused]
       /\ calls' = [calls EXCEPT ![c].pc = "returned", ![c].result = Err(ErrTimeout)]
  /\ UNCHANGED << init_on_load, apiVars, transportVars, historyVars, widgetVars, driverVars,
                  rx, rxClosed, lock, nextId, nInitialized, listenVars, stateVars,
                  collabVars >>

\* The proxy with its callers, the session driver and the widget.
NextWidgetProxy ==
  \/ ProxySendBegin \/ ProxySendWrite \/ ProxySendInsert
  \/ ProxySendReceive \/ ProxySendTimeout \/ ProxySendTimeoutRemove
  \/ WidgetSendResponse \/ WidgetConsume \/ TransportCloseSink
  \/ DriverRecv \/ handle_widget_response \/ handle_widget_response_error
SpecWidgetProxy == InitRunWidgetApi /\ [][NextWidgetProxy]_vars

(***************************************************************************)
(* Properties.                                                             *)
(***************************************************************************)
\* The last text written to the sink.
LastWritten == sink'[Len(sink')]
\* This step wrote a text to the sink.
Wrote == Len(sink') = Len(sink) + 1
\* The dispatcher is handling a request of one of these kinds.
Handling(kinds) == lcur.ok /\ lcur.action \in kinds
\* The position of an event in a chunk without repetitions.
PosIn(chunk, ev) == CHOOSE k \in DOMAIN chunk : chunk[k] = ev

\* C1: a SendEvent request reaches the room collaborator only when the send
\* list of the current permissions is not empty and one of its filters
\* matches the requested event; otherwise there is no room call and the
\* reply written for the request is a failure with the request's id.
C1_SendPermitted ==
  /\ permissions.send # <<>>
  /\ \E i \in DOMAIN permissions.send :
       FilterMatches(permissions.send[i],
                     [event_type |-> lcur.data.event_type, state_key |-> lcur.data.state_key,
                      msgtype |-> lcur.data.content.msgtype])
C1_SendGated ==
  /\ [](Handling({"send_event"}) =>
          /\ lroom.op # "" => C1_SendPermitted
          /\ ~C1_SendPermitted => lpc = "fail_reply" /\ lroom = NoRoomCall)
  /\ [][(Handling({"send_event"}) /\ ~C1_SendPermitted /\ Wrote /\ lpc' # lpc) =>
          /\ LastWritten.api = "fromWidget"
          /\ LastWritten.request_id = lcur.header.request_id
          /\ ~LastWritten.response.ok]_vars
C1_Witness ==
  /\ Handling({"send_event"}) /\ lpc = "room_send"
  /\ lroom.op = "send_state_event_raw" /\ Len(permissions.send) = 2
C1_WitnessRefused ==
  /\ Handling({"send_event"}) /\ lpc = "fail_reply"
  /\ lerr = "Message not allowed by filter"

\* C2: every event of a successful ReadEvent reply matches a filter of the
\* read list, has the type and state key of the request when the request
\* names a state key, deserializes, and the events are in the order the room
\* returned them.
C2_ReadFiltered ==
  (Handling({"read_events"}) /\ lpc = "reply" /\ lresp.ok) =>
    LET events == lresp.value.events
        chunk == lroom.chunk
        req == lcur.data
    IN /\ \A i \in DOMAIN events :
            /\ events[i].ok
            /\ \E k \in DOMAIN chunk : chunk[k] = events[i]
            /\ \E f \in DOMAIN permissions.read : FilterMatches(permissions.read[f], events[i])
            /\ req.state_key \notin {NoKey, AnyKey} =>
                 events[i].event_type = req.event_type /\ events[i].state_key = req.state_key
       /\ \A i, j \in DOMAIN events :
            i < j => PosIn(chunk, events[i]) < PosIn(chunk, events[j])
C2_Witness ==
  /\ Handling({"read_events"}) /\ lpc = "reply" /\ lresp.ok
  /\ Len(lroom.chunk) = 2 /\ Len(lresp.value.events) = 1
  /\ lcur.data.state_key = "k"
  /\ \E k \in DOMAIN lroom.chunk : ~lroom.chunk[k].ok
C2_WitnessOrder ==
  /\ Handling({"read_events"}) /\ lpc = "reply" /\ lresp.ok
  /\ Len(lresp.value.events) = 2

\* C3: a ReadEvent or SendEvent request handled while no negotiation has
\* given the session its permissions gets a failure reply, and no call of
\* the room collaborator is made for it.
C3_NotNegotiated ==
  /\ [](Handling({"read_events", "send_event"}) /\ nAcquired = 0
          => lpc = "fail_reply" /\ lroom = NoRoomCall)
  /\ [][(Handling({"read_events", "send_event"}) /\ nAcquired = 0 /\ Wrote /\ lpc' # lpc) =>
          /\ LastWritten.api = "fromWidget"
          /\ LastWritten.request_id = lcur.header.request_id
          /\ ~LastWritten.response.ok
          /\ replies'[lcur.header.request_id] = 1]_vars
C3_Witness ==
  /\ Handling({"read_events"}) /\ nAcquired = 0 /\ lpc = "fail_reply"
  /\ init_on_load /\ replies[lcur.header.request_id] = 0

\* C4: an entry of the pending table is resolved at most once: a delivered
\* reply has taken its entry out of the table and stays as it was delivered
\* until the waiter takes it; an entry in the table belongs to the call that
\* is waiting; and a reply without an entry goes to the 'unexpected
\* response' path and reaches no waiter.
C4_ResolvedOnce ==
  /\ [](\A id \in HostIds :
          /\ chan[id].st = "sent" => id \notin pending
          /\ id \in pending => lcall.id = id /\ lpc \in {"send_wait", "send_elapsed"})
  /\ [][\A id \in HostIds :
          chan[id].st = "sent" => chan'[id] = chan[id] \/ chan'[id] = ChanUnused]_vars
  /\ [][(dpc = "handle_widget_response" /\ dpc' # dpc
           /\ dmsg.header.request_id \notin pending) =>
          dpc' = "unexpected_response" /\ chan' = chan /\ lpc' = lpc]_vars
C4_Witness ==
  /\ dpc = "unexpected_response"
  /\ dmsg.header.request_id = nextId - 1
  /\ lpc = "fail_reply" /\ lerr = ErrTimeout

\* C5: a reply that carries the id of a request WidgetProxy::send has
\* written, and that arrives before the call has timed out, is not treated
\* as an unexpected response.
C5_ReplyResolves ==
  ~(/\ dpc = "unexpected_response"
    /\ dmsg.header.request_id = lcall.id
    /\ lpc \in {"send_insert", "send_wait"})

\* C6: when the timeout of a request fires, the call ends with the timeout
\* error and the pending table holds no entry of that request; the table
\* never holds an entry of a call that has ended.
C6_TimeoutCleansUp ==
  /\ [][(lpc = "send_elapsed" /\ lpc' # lpc) =>
          /\ lcall.id \notin pending'
          /\ lerr' = ErrTimeout
          /\ lpc' \in {"fail_reply", "done"}]_vars
  /\ [](\A id \in pending : id = lcall.id)
C6_Witness ==
  /\ nCapabilities = 1 /\ nextId = 2 /\ nResponses = 0
  /\ lerr = ErrTimeout /\ pending = {}

\* C7: no request of the widget gets more than one reply.
C7_OneReply == \A r \in WidgetReqIds : replies[r] <= 1

\* C8: with init_on_load, the first ContentLoaded is answered with success
\* and starts the negotiation; a ContentLoaded handled after a negotiation
\* has completed is answered with 'Already loaded' and starts none, so that
\* no second CapabilitiesRequest is written.
C8_AlreadyLoaded ==
  init_on_load =>
    /\ (Handling({"content_loaded"}) /\ lpc = "reply" /\ nCapabilities = 0)
         => lresp.ok /\ lnext = "negotiate"
    /\ (Handling({"content_loaded"}) /\ lpc = "reply" /\ nInitialized >= 1)
         => ~lresp.ok /\ lresp.message = "Already loaded" /\ lnext = "recv"
    /\ nInitialized >= 1 => nCapabilities <= 1

\* C9: at most one negotiation is started in a session, and so at most one
\* is in flight.
C9_OneNegotiation ==
  /\ Cardinality({ i \in DOMAIN tasks : tasks[i].kind = "negotiate" }) <= 1
  /\ Cardinality(Spawned("negotiate")) <= 1

\* C10: for every text that did not decode, one out-of-band error has been
\* sent to the widget.
C10_ErrorPerUndecoded == emitted.errors = nUndecoded

\* C11: every reply of the widget that finds no entry in the pending table
\* has been reported to the widget with an out-of-band error.  ClientApi
\* keeps no pending table, so this is every reply it has processed.
C11_UnexpectedReported == emitted.errors >= nToWidget

\* C12: once the receive side of the transport is closed and everything
\* received before the close has been processed, the loop of the session
\* driver goes on to its end: it is never left waiting for an event.
C12_LoopEnds ==
  (fromClosed /\ from = <<>> /\ fwd = "done" /\ events_rx = <<>> /\ rpc = "recv")
    => ENABLED RunRecv

\* C13: when handling a request has failed, the dispatcher writes a failure
\* reply with the id of that request and the message of the error, and goes
\* back to receiving; it stops only when that write fails, the widget being
\* disconnected.  The dispatcher has ended only when the transport is closed
\* on one side, or when the negotiation made at its start has failed.
C13_FailureReplied ==
  /\ [](lpc = "fail_reply" => lcur.ok /\ lcur.kind = "FromWidget" /\ lerr # "")
  /\ [][(lpc = "fail_reply" /\ lpc' # lpc) =>
          IF sinkClosed THEN lpc' = "done"
          ELSE /\ Wrote /\ LastWritten.api = "fromWidget"
               /\ LastWritten.request_id = lcur.header.request_id
               /\ ~LastWritten.response.ok /\ LastWritten.response.message = lerr
               /\ lpc' = "recv"]_vars
  /\ [](lpc = "done" =>
          sinkClosed \/ rxClosed \/ (~init_on_load /\ lneg = "eager" /\ nInitialized = 0))
\* A negotiation started for ContentLoaded has timed out, the failure reply
\* is about to be written, and a later request is waiting.
C13_Witness ==
  /\ lpc = "fail_reply" /\ lerr = ErrTimeout /\ Handling({"content_loaded"})
  /\ ~sinkClosed /\ rx # <<>>

\* C14: while the answer of the policy collaborator is outstanding, a
\* GetSupportedApiVersion request that has arrived can be handled: the
\* dispatcher does not wait for the answer before it takes the request.
C14_Responsive ==
  (lpc = "acquire_permissions" /\ rx # <<>> /\ Head(rx).action = "supported_api_versions")
    => ENABLED HandleGetSupportedApiVersion

\* C15: no task is suspended at an await point while it holds the lock of
\* the pending table: whenever the lock is held, its holder is not waiting
\* for room in the channel to the widget.
C15_LockNotHeldAtAwait == lock # "free" => (sinkClosed \/ ~SinkFull)

\* C16: a GetSupportedApiVersion request is answered in every state of the
\* session: whenever one arrives, with the transport open on both sides, the
\* dispatcher is still there to answer it.
C16_VersionsInEveryState ==
  (from # <<>> /\ from_json(Head(from)).ok /\ from_json(Head(from)).kind = "FromWidget"
     /\ from_json(Head(from)).action = "supported_api_versions"
     /\ ~sinkClosed /\ ~rxClosed)
    => lpc # "done"

\* C17: the reply written for a GetOpenId request has the state Pending, and
\* the OpenIdCredentialsUpdate request is written only for a GetOpenId
\* request whose reply has been written before, whenever the token task ends.
C17_PendingBeforeUpdate ==
  /\ [][(Handling({"get_openid"}) /\ lpc = "reply" /\ lpc' # lpc /\ Wrote) =>
          /\ LastWritten.api = "fromWidget"
          /\ LastWritten.request_id = lcur.header.request_id
          /\ LastWritten.response.ok /\ LastWritten.response.value.state = "request"
          /\ lpc' = "await_token"]_vars
  /\ [][(Wrote /\ LastWritten.api = "toWidget" /\ LastWritten.action = "openid_credentials") =>
          /\ Handling({"get_openid"})
          /\ replies[lcur.header.request_id] >= 1]_vars
  /\ [](lpc = "await_token" => Handling({"get_openid"}) /\ replies[lcur.header.request_id] >= 1)
\* The OpenIdCredentialsUpdate request has been written, after the reply.
C17_Witness ==
  /\ Handling({"get_openid"}) /\ lpc = "send_insert" /\ lcall.action = "openid_credentials"
  /\ replies[lcur.header.request_id] = 1
\* The token task has ended while the reply is still to be written.
C17_WitnessTokenFirst ==
  Handling({"get_openid"}) /\ lpc = "reply" /\ tokenTask \in {"allowed", "blocked"}

\* C18: the active permissions are empty as long as the policy collaborator
\* has given no answer, and are its latest answer afterwards; they change
\* only in the step in which the policy collaborator answers.
C18_PermissionsFromPolicy ==
  /\ [](IF nAcquired = 0 THEN permissions = DefaultPermissions
        ELSE permissions = policyAnswer /\ policyAnswer \in ApprovedSet)
  /\ [][permissions' # permissions =>
          lpc = "acquire_permissions" /\ nAcquired' = nAcquired + 1]_vars
\* The policy collaborator has answered with something else than what the
\* widget asked for, and that answer is active.
C18_Witness ==
  /\ nAcquired = 1 /\ lpc = "send_write" /\ lcall.action = "notify_capabilities"
  /\ lcall.data.requested \in DesiredSet /\ lcall.data.requested # permissions
  /\ permissions # DefaultPermissions

C20_LoadedAfterInitialized ==
  (Handling({"content_loaded"}) /\ lpc = "reply" /\ nInitialized >= 1)
    => ~lresp.ok /\ lresp.message = "Already loaded" /\ lnext = "recv"

\* C21: with eager initialisation the first thing listen() does is to send a
\* CapabilitiesRequest, before any request of the widget is handled; with
\* initialisation on load a CapabilitiesRequest is written only while a
\* ContentLoaded request is being handled, and the permissions are empty as
\* long as none has been written.
C21_EagerOrOnLoad ==
  /\ [][(lpc = "init" /\ lpc' # lpc) =>
          IF init_on_load THEN lpc' = "recv" /\ nextId' = nextId
          ELSE /\ lpc' = "send_write" /\ lcall'.action = "capabilities"
               /\ lneg' = "eager" /\ lcur' = NoMsg]_vars
  /\ [][nCapabilities' > nCapabilities =>
          IF init_on_load THEN Handling({"content_loaded"}) /\ lneg = "loaded"
          ELSE lcur = NoMsg /\ nCapabilities = 0
               /\ \A r \in WidgetReqIds : replies[r] = 0]_vars
  /\ [](nCapabilities = 0 => permissions = DefaultPermissions /\ nAcquired = 0)
  /\ [](~init_on_load /\ lpc \notin {"init", "send_write", "done"} => nCapabilities = 1)
\* An eager session has written its CapabilitiesRequest while the widget has
\* sent nothing.
C21_Witness ==
  /\ ~init_on_load /\ nCapabilities = 1 /\ lpc = "send_insert"
  /\ nRequests = 0 /\ nResponses = 0 /\ nGarbage = 0
\* A session that initialises on load has handled a request other than
\* ContentLoaded and written no CapabilitiesRequest.
C21_WitnessOnLoad ==
  /\ init_on_load /\ nCapabilities = 0 /\ lpc = "recv"
  /\ \E r \in WidgetReqIds : replies[r] = 1

\* C22: in a session that initialises on load, the reply written for the
\* ContentLoaded request that starts a negotiation is a success, and the
\* CapabilitiesRequest of that negotiation is written after it; when the
\* widget's answer to the CapabilitiesRequest has been received, the next
\* step of the dispatcher is the policy collaborator's answer, which becomes
\* the permissions of the session.
C22_ReplyThenNegotiate ==
  /\ [][(init_on_load /\ nCapabilities' > nCapabilities) =>
          /\ Handling({"content_loaded"})
          /\ replies[lcur.header.request_id] >= 1]_vars
  /\ [][(Handling({"content_loaded"}) /\ lpc = "reply" /\ lnext = "negotiate"
           /\ lpc' # lpc /\ Wrote) =>
          /\ LastWritten.api = "fromWidget" /\ LastWritten.response.ok
          /\ LastWritten.request_id = lcur.header.request_id
          /\ lpc' = "send_write" /\ lcall'.action = "capabilities"]_vars
  /\ [][(lpc = "send_wait" /\ lcall.action = "capabilities" /\ lpc' # lpc
           /\ chan[lcall.id].st = "sent" /\ chan[lcall.id].action = "capabilities"
           /\ chan[lcall.id].response.ok) =>
          lpc' = "acquire_permissions"]_vars
  /\ [][(lpc = "acquire_permissions" /\ lpc' # lpc) =>
          /\ permissions' = policyAnswer' /\ permissions' \in ApprovedSet
          /\ nAcquired' = nAcquired + 1]_vars
\* The negotiation started by the first ContentLoaded has stored the
\* approved permissions, the reply to ContentLoaded having been written.
C22_Witness ==
  /\ init_on_load /\ Handling({"content_loaded"}) /\ nAcquired = 1 /\ nCapabilities = 1
  /\ replies[lcur.header.request_id] = 1
  /\ permissions = policyAnswer /\ permissions # DefaultPermissions

\* C23: once the policy collaborator has answered, the negotiation goes on
\* to its end whatever happens to the CapabilitiesUpdate: the dispatcher has
\* not stopped as long as the transport is open on both sides.
C23_UpdateFireAndForget ==
  (nAcquired >= 1 /\ ~sinkClosed /\ ~rxClosed) => lpc # "done"

\* C24: once the policy collaborator has answered, an event handler is
\* registered with the room, and the dispatcher holds the receiving end of
\* its channel, if and only if the read list of the permissions is not empty.
C24_SubscriptionIffRead ==
  nAcquired >= 1 =>
    /\ listener <=> (permissions.read # <<>>)
    /\ (event_handler_handle # <<>>) <=> (permissions.read # <<>>)

\* C25: every event in the channel of the live subscription deserializes
\* and matches a filter of the read list of the permissions, and there is a
\* receiver for it.
C25_PassedOnOnlyIfMatched ==
  /\ \A i \in DOMAIN listener_rx :
       /\ listener_rx[i].ev \in RawEvents /\ listener_rx[i].ev.ok
       /\ any_matches(permissions.read, listener_rx[i].ev)
       /\ listener_rx[i].room_id = RoomId
  /\ listener_rx # <<>> => listener /\ nAcquired >= 1
\* The callback has passed an event on.
C25_Witness ==
  /\ listener_rx # <<>> /\ listener_rx[1].ev.id = 2
  /\ Len(permissions.read) = 2

\* C26: the page size of the fetch made for a ReadEvent request is the
\* limit of the request when it has one; otherwise 1 for a state request
\* with a specific state key, and 50 for a message-like request and for a
\* state request that accepts any state key.
C26_PageSize ==
  (lpc = "room_messages" /\ lroom.op = "messages") =>
    lroom.limit =
      IF lcur.data.limit.some THEN lcur.data.limit.v
      ELSE IF lcur.data.state_key \notin {NoKey, AnyKey} THEN 1
      ELSE 50

\* C27: a ReadEvent request is refused without a call of the room
\* collaborator only when the read list of the permissions is empty; with a
\* non-empty read list the room is asked for messages with that list, the
\* only failure after that is the failure of the room call, and when the
\* call returns a chunk the reply built and written for the request is a
\* success whose events are taken from the chunk.
C27_ReadRejectedOnlyIfEmpty ==
  /\ []((Handling({"read_events"}) /\ lpc = "fail_reply" /\ lroom = NoRoomCall)
          => permissions.read = <<>>)
  /\ []((Handling({"read_events"}) /\ lpc = "fail_reply" /\ lroom # NoRoomCall)
          => /\ lroom.returned
             /\ lerr \in {"room: messages failed", ErrWidgetDisconnected})
  /\ [][(lpc = "recv" /\ lpc' # lpc /\ rx # <<>> /\ rx' = Tail(rx)
          /\ Head(rx).action = "read_events" /\ permissions.read # <<>>) =>
          /\ lpc' = "room_messages" /\ lroom'.op = "messages"
          /\ lroom'.filters = permissions.read /\ ~lroom'.returned]_vars
  /\ [][(lpc = "room_messages" /\ lpc' # lpc /\ lroom'.chunk \in RoomChunks
          /\ lerr' = "") =>
          /\ lpc' = "reply" /\ lresp'.ok
          /\ \A i \in DOMAIN lresp'.value.events :
               \E k \in DOMAIN lroom'.chunk : lroom'.chunk[k] = lresp'.value.events[i]]_vars
  /\ [][(Handling({"read_events"}) /\ lpc = "reply" /\ Wrote /\ lpc' # lpc) =>
          /\ LastWritten.api = "fromWidget" /\ LastWritten.response = lresp
          /\ LastWritten.response.ok
          /\ LastWritten.request_id = lcur.header.request_id]_vars
\* The room has returned a chunk none of whose events passes the filters of
\* the non-empty read list, and the reply built for the request is a success
\* with no events.
C27_Witness ==
  /\ Handling({"read_events"}) /\ lpc = "reply" /\ lresp.ok
  /\ lroom.returned /\ lroom.chunk # <<>> /\ lresp.value.events = <<>>
  /\ permissions.read # <<>>
\* Such a reply is on the transport.
C27_WitnessWritten ==
  /\ permissions.read # <<>>
  /\ \E i \in DOMAIN sink :
       /\ sink[i].api = "fromWidget" /\ sink[i].action = "read_events"
       /\ sink[i].response.ok /\ sink[i].response.value.events = <<>>
\* A ReadEvent request has been refused without a call of the room.
C27_WitnessRejected ==
  /\ Handling({"read_events"}) /\ lpc = "fail_reply" /\ lroom = NoRoomCall
  /\ nAcquired >= 1 /\ permissions.read = <<>>
  /\ lerr = "No permissions to read any events"

\* C28: the OpenIdCredentialsUpdate request made after a GetOpenId request
\* has the state allowed, with the id of that GetOpenId request as its
\* original request id, when the token fetch succeeded, and the state
\* blocked when it failed; the request is sent under an id no earlier
\* request of the host had, and is written as it was made.
C28_OpenIdUpdate ==
  /\ [][(lpc = "await_token" /\ lpc' # lpc) =>
          /\ Handling({"get_openid"}) /\ lcur' = lcur
          /\ lcall'.action = "openid_credentials"
          /\ lcall'.id = nextId /\ nextId' = nextId + 1
          /\ lcall'.id # lcur.header.request_id
          /\ tokenTask = "allowed" =>
               /\ lcall'.data.state = "allowed"
               /\ lcall'.data.original_request_id = lcur.header.request_id
          /\ tokenTask = "blocked" => lcall'.data.state = "blocked"
          /\ tokenTask \in {"allowed", "blocked"}]_vars
  /\ [][(Wrote /\ LastWritten.api = "toWidget" /\ LastWritten.action = "openid_credentials") =>
          /\ Handling({"get_openid"})
          /\ LastWritten.request_id = lcall.id /\ LastWritten.data = lcall.data
          /\ LastWritten.data.state = "allowed" =>
               LastWritten.data.original_request_id = lcur.header.request_id
          /\ \A i \in DOMAIN sink :
               sink[i].api = "toWidget" => sink[i].request_id # LastWritten.request_id]_vars
  /\ [](/\ \A id \in pending : id < nextId
        /\ \A i \in DOMAIN sink : sink[i].api = "toWidget" => sink[i].request_id < nextId
        /\ lcall # NoCall => lcall.id < nextId)
\* The update for a fetched token is on the transport, under an id of the
\* host, with the id of the widget's GetOpenId request in it.
C28_Witness ==
  /\ Handling({"get_openid"}) /\ lpc = "send_wait" /\ lcall.action = "openid_credentials"
  /\ \E i \in DOMAIN sink :
       /\ sink[i].api = "toWidget" /\ sink[i].action = "openid_credentials"
       /\ sink[i].request_id = lcall.id /\ sink[i].request_id \in HostIds
       /\ sink[i].data = OpenIdAllowed(lcur.header.request_id)
       /\ lcur.header.request_id \in WidgetReqIds
\* The update for a failed fetch is on the transport.
C28_WitnessBlocked ==
  \E i \in DOMAIN sink :
    /\ sink[i].api = "toWidget" /\ sink[i].action = "openid_credentials"
    /\ sink[i].data.state = "blocked"

\* C29: once the Pending reply to a GetOpenId request has been written, a
\* GetSupportedApiVersion request that has arrived can be handled, whether
\* the token fetch is still running or the OpenIdCredentialsUpdate request
\* is waiting for the widget's reply.
C29_OpenIdNotBlocking ==
  (/\ Handling({"get_openid"}) /\ replies[lcur.header.request_id] >= 1
   /\ \/ lpc = "await_token"
      \/ lpc = "send_wait" /\ lcall.action = "openid_credentials"
   /\ rx # <<>> /\ Head(rx).action = "supported_api_versions")
    => ENABLED HandleGetSupportedApiVersion

\* C30: when the write of a host-initiated request to the transport fails,
\* the call returns the widget-disconnected error to its caller, and the
\* pending table and the reply channels are as they were: there is no entry
\* for the id of the request, before or after.
C30_WriteFailureNoEntry ==
  /\ [][(lpc = "send_write" /\ lpc' # lpc /\ ~Wrote) =>
          /\ sinkClosed
          /\ lerr' = ErrWidgetDisconnected /\ lpc' \in {"done", "fail_reply"}
          /\ pending' = pending /\ chan' = chan
          /\ lcall.id \notin pending' /\ chan'[lcall.id] = ChanUnused
          /\ lcall' = NoCall]_vars
  /\ [](lpc = "send_write" => lcall.id \notin pending /\ chan[lcall.id] = ChanUnused)
\* The write of the first request of the host, the CapabilitiesRequest of an
\* eager negotiation, has failed: the session has ended with the
\* widget-disconnected error and the pending table is empty.
C30_Witness ==
  /\ lpc = "done" /\ lerr = ErrWidgetDisconnected /\ lneg = "eager"
  /\ nextId = 2 /\ nCapabilities = 0 /\ sinkClosed
  /\ pending = {} /\ chan[1] = ChanUnused
\* The write of an OpenIdCredentialsUpdate request has failed, and the
\* failure is about to be reported for the GetOpenId request.
C30_WitnessOpenId ==
  /\ Handling({"get_openid"}) /\ lpc = "fail_reply" /\ lerr = ErrWidgetDisconnected
  /\ replies[lcur.header.request_id] = 1 /\ tokenTask = "idle" /\ pending = {}
  /\ \A i \in DOMAIN sink : sink[i].action # "openid_credentials"

\* C31: when the reply delivered to a waiting call is of another kind than
\* the request of the call, the call returns the invalid-response error to
\* its caller: it does not count as a success (no permissions are asked
\* for, no negotiation completes), and the pending table has no entry of
\* the request.
C31_InvalidResponse ==
  /\ [][(/\ lpc = "send_wait" /\ lpc' # lpc
          /\ chan[lcall.id].st = "sent" /\ chan[lcall.id].action # lcall.action) =>
          /\ lerr' = ErrInvalidResponse
          /\ lpc' \in {"fail_reply", "done"}
          /\ nInitialized' = nInitialized
          /\ lcall.id \notin pending /\ lcall.id \notin pending'
          /\ chan'[lcall.id] = ChanUnused]_vars
  /\ [](lerr = ErrInvalidResponse => lpc \in {"fail_reply", "done"} /\ lcall = NoCall)
\* A CapabilitiesUpdate request has been answered with a reply of another
\* kind, and the failure is about to be reported to the widget.
C31_Witness ==
  /\ lerr = ErrInvalidResponse /\ lpc = "fail_reply" /\ Handling({"content_loaded"})
  /\ nAcquired = 1 /\ nInitialized = 0 /\ pending = {}
  /\ \A id \in HostIds : chan[id] = ChanUnused
\* The same for the CapabilitiesRequest of an eager negotiation.
C31_WitnessEager ==
  /\ lerr = ErrInvalidResponse /\ lpc = "done" /\ lneg = "eager"
  /\ nAcquired = 0 /\ nextId = 2 /\ pending = {}

\* C32: a reply of the widget that declares a failure (its `response` holds
\* an `error`) to the request a call is waiting for is handed over as a
\* failure with the widget's message; when the reply delivered to a waiting
\* call is of the kind of its request and a failure, the call returns the
\* widget's message as its error; for a CapabilitiesRequest the negotiation
\* ends there, the policy collaborator is not asked and the permissions stay
\* as they were.  The policy collaborator is asked only after a successful
\* reply to a CapabilitiesRequest.
C32_WidgetErrorReply ==
  /\ [][(/\ from # <<>> /\ dpc = "recv" /\ dpc' # dpc
          /\ lpc = "send_wait" /\ Head(from).api = "toWidget"
          /\ Head(from).requestId = lcall.id /\ Head(from).action = lcall.action
          /\ Head(from).response # <<>> /\ Head(from).response[1].error # <<>>) =>
          /\ dpc' = "handle_widget_response"
          /\ dmsg'.response = Failure(Head(from).response[1].error[1])]_vars
  /\ [][(/\ lpc = "send_wait" /\ lpc' # lpc
          /\ chan[lcall.id].st = "sent" /\ chan[lcall.id].action = lcall.action
          /\ ~chan[lcall.id].response.ok) =>
          /\ lerr' = chan[lcall.id].response.message
          /\ lerr' \notin {ErrInvalidResponse, ErrTimeout, ErrWidgetDisconnected, ""}
          /\ lpc' \in {"fail_reply", "done"}
          /\ lcall.action = "capabilities" =>
               /\ nAcquired' = nAcquired /\ permissions' = permissions
               /\ lpc' = IF lneg = "eager" THEN "done" ELSE "fail_reply"]_vars
  /\ [][(lpc' = "acquire_permissions" /\ lpc # lpc') =>
          /\ lpc = "send_wait" /\ lcall.action = "capabilities"
          /\ chan[lcall.id].st = "sent" /\ chan[lcall.id].action = "capabilities"
          /\ chan[lcall.id].response.ok]_vars

\* C33: with several calls of WidgetProxy::send outstanding, the calls have
\* different ids; the delivery of a reply changes the table entry and the
\* channel of the id it carries and of no other, and no call's state; a call
\* returns a reply only from the channel of its own id, the other calls
\* staying as they are; and the timeout of a call removes the entry of its
\* own id only.
C33_RepliesByOwnId ==
  /\ [](\A c, d \in Callers :
          (c # d /\ calls[c].pc # "idle" /\ calls[d].pc # "idle") => calls[c].id # calls[d].id)
  /\ [][(dpc = "handle_widget_response" /\ dpc' # dpc) =>
          LET rid == dmsg.header.request_id IN
            /\ calls' = calls
            /\ \A id \in HostIds \ {rid} :
                 chan'[id] = chan[id] /\ (id \in pending' <=> id \in pending)
            /\ rid \in pending => rid \notin pending' /\ chan'[rid].st \in {"sent", "rx_dropped"}]_vars
  /\ [][\A c \in Callers :
          (calls[c].pc = "send_wait" /\ calls'[c].pc = "returned") =>
            /\ chan[calls[c].id].st = "sent"
            /\ pending' = pending
            /\ \A d \in Callers \ {c} : calls'[d] = calls[d]
            /\ \A id \in HostIds \ {calls[c].id} : chan'[id] = chan[id]]_vars
  /\ [][\A c \in Callers :
          (calls[c].pc = "send_elapsed" /\ calls'[c].pc = "returned") =>
            /\ pending' = pending \ {calls[c].id}
            /\ calls'[c].result = Err(ErrTimeout)
            /\ \A d \in Callers \ {c} : calls'[d] = calls[d]
            /\ \A id \in HostIds \ {calls[c].id} : chan'[id] = chan[id]]_vars
\* Of two calls outstanding at once, the later one has got its reply and
\* returned; the earlier one is still waiting, its entry in the table.
C33_Witness ==
  \E c, d \in Callers :
    /\ calls[c].pc = "returned" /\ calls[c].result.st = "ok"
    /\ calls[d].pc = "send_wait" /\ calls[d].id \in pending /\ chan[calls[d].id].st = "open"
    /\ calls[d].id < calls[c].id
\* Of two calls waiting at once, one has timed out and returned; the entry of
\* the other is in the table.
C33_WitnessTimeout ==
  \E c, d \in Callers :
    /\ calls[c].pc = "returned" /\ calls[c].result = Err(ErrTimeout)
    /\ calls[d].pc = "send_wait" /\ calls[d].id \in pending
    /\ calls[d].id < calls[c].id

\* C34: a task that is about to take the lock of the pending table, to
\* insert its entry or to remove it after its timeout, gets it without the
\* help of the transport: whenever the lock is held by another task, that
\* task can go on to release it, also while the outgoing channel is full.
C34_LockGranted ==
  (lock # "free" /\ \E c \in Callers : calls[c].pc \in {"send_insert", "send_elapsed"})
    => ENABLED handle_widget_response_error

\* C35: every entry of the pending table is the entry of a call of
\* WidgetProxy::send that is waiting for its reply or is about to remove
\* the entry after its timeout; a call that has returned, whatever it
\* returned, has no entry in the table, and neither has a call that has not
\* yet inserted one.
C35_NoLeak ==
  /\ \A id \in pending :
       \E c \in Callers : calls[c].id = id /\ calls[c].pc \in {"send_wait", "send_elapsed"}
  /\ \A c \in Callers :
       calls[c].pc \in {"returned", "send_write", "send_insert"} => calls[c].id \notin pending
  /\ \A c \in Callers :
       calls[c].pc = "returned" =>
         \/ calls[c].result.st = "ok"
         \/ calls[c].result.error \in {"widget says no", ErrInvalidResponse, ErrTimeout,
                                       ErrWidgetDisconnected}
\* Both callers have returned, one with the timeout error and one with the
\* invalid-response error, and the table is empty.
C35_Witness ==
  \E c, d \in Callers :
    /\ calls[c].pc = "returned" /\ calls[c].result = Err(ErrTimeout)
    /\ calls[d].pc = "returned" /\ calls[d].result = Err(ErrInvalidResponse)
    /\ pending = {} /\ nextId = 3
\* A call has returned the widget's reply while the other call's entry is in
\* the table.
C35_WitnessOk ==
  \E c, d \in Callers :
    /\ calls[c].pc = "returned" /\ calls[c].result.st = "ok"
    /\ calls[d].pc = "send_elapsed" /\ calls[d].id \in pending
\* A call has returned the disconnect error, another the widget's error.
C35_WitnessErrors ==
  \E c, d \in Callers :
    /\ calls[c].pc = "returned" /\ calls[c].result = Err(ErrWidgetDisconnected)
    /\ calls[d].pc = "returned" /\ calls[d].result = Err("widget says no")

\* C36: the step in which the CapabilitiesRequest of a negotiation fails
\* (its write fails, its timeout ends, or the reply taken is a declared
\* failure or of another kind) ends the negotiation: the permissions, the
\* subscription and its channel, and the record of the policy
\* collaborator's answers are as before, nothing is written, and no
\* CapabilitiesUpdate request is started; a CapabilitiesUpdate request is
\* started only in the step in which the policy collaborator answers.
C36_FailedRequestNoEffect ==
  /\ [][(/\ lcall.action = "capabilities" /\ lpc' # lpc
          /\ \/ lpc = "send_write" /\ sinkClosed
             \/ lpc = "send_elapsed"
             \/ lpc = "send_wait" /\ chan[lcall.id].st = "sent"
                  /\ (chan[lcall.id].action # "capabilities" \/ ~chan[lcall.id].response.ok)) =>
          /\ lpc' = IF lneg = "eager" THEN "done" ELSE "fail_reply"
          /\ lerr' \in {ErrWidgetDisconnected, ErrTimeout, ErrInvalidResponse, "widget says no"}
          /\ permissions' = permissions /\ listener' = listener
          /\ event_handler_handle' = event_handler_handle /\ listener_rx' = listener_rx
          /\ initialized' = initialized /\ nInitialized' = nInitialized
          /\ nAcquired' = nAcquired /\ policyAnswer' = policyAnswer
          /\ lcall' = NoCall /\ ~Wrote]_vars
  /\ [][(lcall'.action = "notify_capabilities" /\ lcall.action # "notify_capabilities") =>
          lpc = "acquire_permissions" /\ nAcquired' = nAcquired + 1]_vars
\* The CapabilitiesRequest of a second negotiation has timed out: the
\* permissions and the subscription of the first negotiation are in place,
\* and the policy collaborator has been asked once.
C36_Witness ==
  /\ Handling({"content_loaded"}) /\ lpc = "fail_reply" /\ lerr = ErrTimeout
  /\ nCapabilities = 2 /\ nAcquired = 1 /\ nextId = 4
  /\ permissions.read # <<>> /\ listener /\ event_handler_handle = permissions.read
\* The CapabilitiesRequest of an eager negotiation could not be written.
C36_WitnessDisconnected ==
  /\ lpc = "done" /\ lneg = "eager" /\ lerr = ErrWidgetDisconnected
  /\ nCapabilities = 0 /\ nAcquired = 0 /\ nextId = 2
  /\ permissions = DefaultPermissions /\ ~listener /\ sink = <<>>

\* C37: the room call made for a permitted SendEvent request is the state
\* event send, with the state key of the request, exactly when the request
\* has a state key, and the message-like send otherwise, with the type of
\* the request in both cases; the success reply built for the request, and
\* written, has the id of the room and the event id that call returned.
C37_SendForwarded ==
  /\ []((Handling({"send_event"}) /\ lroom.op # "") =>
          LET req == lcur.data IN
            /\ lroom.op = IF req.state_key # NoKey THEN "send_state_event_raw" ELSE "send_raw"
            /\ lroom.state_key = req.state_key
            /\ lroom.event_type = req.event_type)
  /\ []((Handling({"send_event"}) /\ lpc = "reply") =>
          /\ lroom.returned /\ lroom.event_id \in {"$e1", "$e2"}
          /\ lresp = Success([room_id |-> RoomId, event_id |-> lroom.event_id]))
  /\ [][(Handling({"send_event"}) /\ lpc = "reply" /\ Wrote /\ lpc' # lpc) =>
          /\ LastWritten.api = "fromWidget"
          /\ LastWritten.request_id = lcur.header.request_id
          /\ LastWritten.response = Success([room_id |-> RoomId,
                                              event_id |-> lroom.event_id])]_vars
\* A state event has been sent with the key of the request, and the reply
\* with the id the room returned is about to be written.
C37_Witness ==
  /\ Handling({"send_event"}) /\ lpc = "reply"
  /\ lroom.op = "send_state_event_raw" /\ lroom.state_key = "k"
  /\ lroom.event_type = RoomTopic /\ lresp.value.event_id = "$e2"
\* A message-like event has been sent.
C37_WitnessMessage ==
  /\ Handling({"send_event"}) /\ lpc = "reply"
  /\ lroom.op = "send_raw" /\ lroom.state_key = NoKey
  /\ lroom.event_type = RoomMessage /\ lresp.value.event_id = "$e1"

====
